---------------------------- MODULE Spec2Model ----------------------------
(***************************************************************************)
(* A model of spectraplots: in h5utils.py the scoped store access context  *)
(* (h5FileContext), the lazy depth-bounded traversal (yield_items), the    *)
(* name predicate combinator (criteria_name) and h5Utils.mk_keys and       *)
(* apply_keys; in analysis.py and methods.py find_near and array_region;   *)
(* in analysis.py the builders mk_map and mk_profile.                      *)
(*                                                                         *)
(* A store is a tree of Groups and Datasets.  A node is the sequence of    *)
(* child names leading to it from the root; its h5py name is the           *)
(* "/"-joined string, modelled as a sequence of one-character strings.     *)
(* Callbacks handed to the traversal (criteria, func) are total: they      *)
(* return normally.                                                        *)
(***************************************************************************)
EXTENDS Integers, Sequences, FiniteSets, TLC

VARIABLES
    cfg,        \* the arguments of the call under study (fixed during a run)
    gen,        \* state of the generator object returned by yield_items
    consumer,   \* what the code iterating over the generator is doing
    stack,      \* generator frames, outermost first (yield from nests them)
    log,        \* events in the order the code produced them
    libOpen,    \* number of file handles opened by h5FileContext and not yet closed
    callerOpen, \* TRUE while the handle the caller passed in is open
    error,      \* the exception that reached the caller, "none" if none
    wpc,        \* position of a caller that uses `with h5FileContext(...)` directly
    cn,         \* inputs and result of a criteria_name call
    rg,         \* inputs and result of a find_near or array_region call
    hu,         \* the h5Utils instance of a mk_keys call, and how far the call is
    bd,         \* a mk_map or mk_profile call: the store, its locals, its outcome
    sf,         \* inputs and result of a string_to_float call
    bl,         \* a baseline call: the object it is given, before and after
    fb,         \* inputs and locals of a fit_baseline call
    inst        \* an h5Utils instance under a sequence of its operations

vars == <<cfg, gen, consumer, stack, log, libOpen, callerOpen, error, wpc, cn, rg, sf, bl, fb, inst, hu, bd>>

travVars == <<cfg, gen, consumer, stack, log, libOpen, callerOpen, error, wpc>>

-----------------------------------------------------------------------------
(* Bounds of the model *)

MaxNodes == 4
MaxDeep == 2
MaxPathLen == 3
MaxPatLen == 1
MaxList == 2

(* rows of an array, and intervals of an array_region call *)
MaxRows == 3

MaxIntervals == 2

(* keys handed to mk_profile *)
MaxKeys == 2

(* characters of the string given to string_to_float *)
MaxStr == 4

(* calls of baseline on one object *)
MaxCalls == 2

(* deep = 10 in the signature of yield_items *)
DefaultDeep == 10

-----------------------------------------------------------------------------
(* Strings: sequences of one-character strings *)

Chars == {"/", "a", "b"}

RECURSIVE StringsUpTo(_, _)
StringsUpTo(alphabet, n) ==
    IF n = 0 THEN {<<>>}
    ELSE LET shorter == StringsUpTo(alphabet, n - 1)
         IN shorter \cup {Append(s, c) : s \in shorter, c \in alphabet}

(* str.startswith *)
StartsWith(path, prefix) ==
    /\ Len(prefix) <= Len(path)
    /\ SubSeq(path, 1, Len(prefix)) = prefix

(* str.endswith *)
EndsWith(path, suffix) ==
    /\ Len(suffix) <= Len(path)
    /\ SubSeq(path, Len(path) - Len(suffix) + 1, Len(path)) = suffix

(* `sub in path` for strings *)
Contains(path, sub) ==
    \E i \in 0..(Len(path) - Len(sub)) : SubSeq(path, i + 1, i + Len(sub)) = sub


-----------------------------------------------------------------------------
(* criteria_name *)

(* np.prod of an array of booleans *)
RECURSIVE np_prod(_)
np_prod(bools) ==
    IF bools = <<>> THEN 1
    ELSE (IF Head(bools) THEN 1 ELSE 0) * np_prod(Tail(bools))

(* np.sum of an array of booleans *)
RECURSIVE np_sum(_)
np_sum(bools) ==
    IF bools = <<>> THEN 0
    ELSE (IF Head(bools) THEN 1 ELSE 0) + np_sum(Tail(bools))

(* faulty variant: 'and' reduced with the sum and everything else with the product *)
reduce_operator_Swapped(operator, bools) ==
    IF operator = "and" THEN np_sum(bools) # 0
    ELSE np_prod(bools) # 0

(* the reduction the operator argument selects, applied and cast with bool() *)
reduce_operator(operator, bools) ==
    IF operator = "and" THEN np_prod(bools) # 0
    ELSE IF operator = "or" THEN np_sum(bools) # 0
    ELSE np_sum(bools) # 0

criteria_name(path, in_path, not_in_path, starts, ends, not_starts, not_ends, operator) ==
    LET c_in_path ==
            IF in_path # <<>>
            THEN reduce_operator(operator,
                     [i \in 1..Len(in_path) |-> Contains(path, in_path[i])])
            ELSE TRUE
        c_starts ==
            IF starts # <<>>
            THEN reduce_operator(operator,
                     [i \in 1..Len(starts) |-> StartsWith(path, starts[i])])
            ELSE TRUE
        c_ends ==
            IF ends # <<>>
            THEN reduce_operator(operator,
                     [i \in 1..Len(ends) |-> EndsWith(path, ends[i])])
            ELSE TRUE
        c_not_in_path ==
            IF not_in_path # <<>>
            THEN reduce_operator(operator,
                     [i \in 1..Len(not_in_path) |-> ~Contains(path, not_in_path[i])])
            ELSE TRUE
        c_not_starts ==
            IF not_starts # <<>>
            THEN reduce_operator(operator,
                     [i \in 1..Len(not_starts) |-> ~StartsWith(path, not_starts[i])])
            ELSE TRUE
        c_not_ends ==
            IF not_ends # <<>>
            THEN reduce_operator(operator,
                     [i \in 1..Len(not_ends) |-> ~EndsWith(path, not_ends[i])])
            ELSE TRUE
    IN  c_in_path /\ c_not_in_path /\ c_starts /\ c_not_starts /\ c_ends /\ c_not_ends

-----------------------------------------------------------------------------
(* The store: a tree of Groups and Datasets *)

Root == <<>>

(* child names, in the order the store iterates them *)
NameOrder == <<"a", "b">>

Names == {NameOrder[i] : i \in 1..Len(NameOrder)}

Parent(node) == SubSeq(node, 1, Len(node) - 1)

(* node.name: "/" for the root, else "/"-joined child names *)
RECURSIVE NameOf(_)
NameOf(node) ==
    IF node = Root THEN <<"/">>
    ELSE IF Len(node) = 1 THEN <<"/", node[1]>>
    ELSE NameOf(Parent(node)) \o <<"/", node[Len(node)]>>

(* the trees with one more leaf than a tree of the given set *)
NewLeaves(t) ==
    {Append(p, c) : p \in {q \in DOMAIN t : t[q] = "Group"}, c \in Names} \ DOMAIN t

Grow(trees) ==
    UNION { { (n :> k) @@ t : n \in NewLeaves(t), k \in {"Group", "Dataset"} } :
            t \in trees }

RECURSIVE TreesOfSize(_)
TreesOfSize(n) ==
    IF n <= 1 THEN {(Root :> "Group")} ELSE Grow(TreesOfSize(n - 1))

(* / -> {g1 -> {a, b}, g2}, with g1 named "a" and g2 named "b" *)
Fixture ==
    (Root :> "Group") @@ (<<"a">> :> "Group") @@ (<<"a", "a">> :> "Dataset")
    @@ (<<"a", "b">> :> "Dataset") @@ (<<"b">> :> "Dataset")

Trees == UNION {TreesOfSize(n) : n \in 1..MaxNodes} \cup {Fixture}


(* faulty variant: the children in the reverse of the store's iteration order *)
items_Reversed(tree, node) ==
    LET present(c) == Append(node, c) \in DOMAIN tree
        names == SelectSeq(NameOrder, present)
    IN  [i \in 1..Len(names) |-> Append(node, names[Len(names) + 1 - i])]

(* value.items(): the children of a Group, in the store's iteration order *)
items(tree, node) ==
    LET present(c) == Append(node, c) \in DOMAIN tree
        names == SelectSeq(NameOrder, present)
    IN  [i \in 1..Len(names) |-> Append(node, names[i])]

(* the number of levels a node lies below another; -1 if it is not in its subtree *)
LevelsBelow(node, start) ==
    IF Len(start) <= Len(node) /\ SubSeq(node, 1, Len(start)) = start
    THEN Len(node) - Len(start)
    ELSE -1

-----------------------------------------------------------------------------
(* h5FileContext *)

(* What a file_name_or_object can be: a path string, an open h5py.File, an open *)
(* h5py.Group, or a value of any other type.                                    *)
ObjectKinds == {"str", "File", "Group", "other"}

(* isinstance; h5py.File is a subclass of h5py.Group *)
isinstance(kind, class) ==
    CASE class = "File" -> kind = "File"
      [] class = "Group" -> kind \in {"File", "Group"}
      [] class = "Dataset" -> kind = "Dataset"
      [] class = "str" -> kind = "str"
      [] OTHER -> FALSE

(* faulty variant: no else branch, so a value of another type falls through and *)
(* __enter__ returns None                                                *)
h5FileContext_enter_NoTypeError(file_name_or_object) ==
    IF isinstance(file_name_or_object, "Group")
    THEN [exc |-> "none", handle |-> "file_name_or_object", opens |-> FALSE]
    ELSE IF isinstance(file_name_or_object, "str")
    THEN [exc |-> "none", handle |-> "h5_file", opens |-> TRUE]
    ELSE [exc |-> "none", handle |-> "nothing", opens |-> FALSE]

(* __enter__: the exception raised, the handle returned to the block and *)
(* whether a file was opened                                             *)
h5FileContext_enter(file_name_or_object) ==
    IF isinstance(file_name_or_object, "File")
    THEN [exc |-> "none", handle |-> "file_name_or_object", opens |-> FALSE]
    ELSE IF isinstance(file_name_or_object, "Group")
    THEN [exc |-> "none", handle |-> "file_name_or_object", opens |-> FALSE]
    ELSE IF isinstance(file_name_or_object, "str")
    THEN [exc |-> "none", handle |-> "h5_file", opens |-> TRUE]
    ELSE [exc |-> "TypeError", handle |-> "nothing", opens |-> FALSE]

(* faulty variant: the test of __exit__ never holds, nothing is closed *)
h5FileContext_exit_ClosesNothing(file_name_or_object) ==
    [closes |-> "nothing", suppress |-> FALSE]

(* faulty variant: __exit__ closes whatever the context was given *)
h5FileContext_exit_ClosesGiven(file_name_or_object) ==
    IF isinstance(file_name_or_object, "str")
    THEN [closes |-> "h5_file", suppress |-> FALSE]
    ELSE [closes |-> "file_name_or_object", suppress |-> FALSE]

(* faulty variant: __exit__ returns True *)
h5FileContext_exit_Suppresses(file_name_or_object) ==
    IF isinstance(file_name_or_object, "str")
    THEN [closes |-> "h5_file", suppress |-> TRUE]
    ELSE [closes |-> "nothing", suppress |-> TRUE]

(* __exit__: the handle it closes and whether it returns a true value, *)
(* which would suppress the exception it was called with               *)
h5FileContext_exit(file_name_or_object) ==
    IF isinstance(file_name_or_object, "str")
    THEN [closes |-> "h5_file", suppress |-> FALSE]
    ELSE [closes |-> "nothing", suppress |-> FALSE]

(* the effect of closing a handle on the open handles *)
LibOpenAfterClose(closes, n) == IF closes = "h5_file" THEN n - 1 ELSE n

CallerOpenAfterClose(closes, b) == IF closes = "file_name_or_object" THEN FALSE ELSE b

CloseEvents(closes, node) ==
    IF closes = "nothing" THEN <<>> ELSE <<[ev |-> "close", node |-> node]>>

-----------------------------------------------------------------------------
(* Criteria handed to the traversal *)

_default_criteria(x) == TRUE

is_dataset(kind) == kind = "Dataset"

is_group(kind) == kind = "Group"

is_root(name) == name = <<"/">>

ObjectCriteria == {"None", "is_group", "is_dataset"}

NameCriteria == {"None", "is_root", "ends_a"}

(* object_criteria(h5_object), with None replaced by the default *)
object_criteria(c, kind) ==
    CASE c = "is_group" -> is_group(kind)
      [] c = "is_dataset" -> is_dataset(kind)
      [] OTHER -> _default_criteria(kind)

(* name_criteria(name), with None replaced by the default; "ends_a" is *)
(* lambda name: criteria_name(name, ends=['a'])                         *)
name_criteria(c, name) ==
    CASE c = "is_root" -> is_root(name)
      [] c = "ends_a" ->
            criteria_name(name, <<>>, <<>>, <<>>, << <<"a">> >>, <<>>, <<>>, "and")
      [] OTHER -> _default_criteria(name)


-----------------------------------------------------------------------------
(* yield_items: a generator; each frame is one (recursive) call *)

(* faulty variant: the abs() of line 191 left out *)
abs_Identity(n) == n

abs(n) == IF n < 0 THEN -n ELSE n

(* faulty variant: the two criteria joined with `or` *)
Matches_Either(c, node) ==
    \/ object_criteria(c.object_criteria, c.tree[node])
    \/ name_criteria(c.name_criteria, NameOf(node))

(* the test of lines 188 and 200-202 *)
Matches(c, node) ==
    /\ object_criteria(c.object_criteria, c.tree[node])
    /\ name_criteria(c.name_criteria, NameOf(node))

(* func(node); yield node *)
VisitEvents(node) ==
    <<[ev |-> "func", node |-> node], [ev |-> "yield", node |-> node]>>

(* faulty variant: the budget handed down without the decrement of line 193 *)
DeepAfterGuard_Keep(deep) == abs(deep)

(* deep = abs(deep); if bool(deep): deep -= 1 *)
DeepAfterGuard(deep) == IF abs(deep) # 0 THEN abs(deep) - 1 ELSE abs(deep)

(* faulty variant: the guard of line 192 lets a budget of 0 through *)
Descends_AtZero(deep) == abs(deep) >= 0

Descends(deep) == abs(deep) # 0

(* faulty variant: the recursive call handed the path, not the open Group *)
NewFrame_Path(node, file_name_or_object, deep) ==
    [node |-> node, fobj |-> "str", h5_object |-> "nothing",
     deep |-> deep, pc |-> "with", items |-> <<>>]

NewFrame(node, file_name_or_object, deep) ==
    [node |-> node, fobj |-> file_name_or_object, h5_object |-> "nothing",
     deep |-> deep, pc |-> "with", items |-> <<>>]

Top == stack[Len(stack)]

SetTop(f) == [stack EXCEPT ![Len(stack)] = f]

Running == gen = "running" /\ stack # <<>>

(* A yield reached while the generator is being closed is a RuntimeError *)
(* ("generator ignored GeneratorExit"); otherwise the generator suspends. *)
Emit(node, nextStack) ==
    /\ log' = log \o VisitEvents(node)
    /\ stack' = nextStack
    /\ IF consumer = "stopped"
       THEN gen' = "raised" /\ error' = "RuntimeError"
       ELSE gen' = "suspended" /\ error' = error

(* the consumer pulls the next item: next(generator) *)
Next_item ==
    /\ cfg.client = "traverse"
    /\ consumer = "iterating"
    /\ gen \in {"created", "suspended"}
    /\ gen' = "running"
    /\ UNCHANGED <<cfg, consumer, stack, log, libOpen, callerOpen, error, wpc, cn, rg, sf, bl, fb, inst, hu, bd>>

(* line 187: with _access_h5(file_name_or_object, ...) as h5_object *)
GenWith ==
    /\ Running
    /\ Top.pc = "with"
    /\ LET r == h5FileContext_enter(Top.fobj)
       IN  IF r.exc # "none"
           THEN /\ gen' = "raised"
                /\ error' = r.exc
                /\ stack' = <<>>
                /\ UNCHANGED <<log, libOpen>>
           ELSE /\ stack' = SetTop([Top EXCEPT !.pc = "test", !.h5_object = r.handle])
                /\ libOpen' = IF r.opens THEN libOpen + 1 ELSE libOpen
                /\ log' = IF r.opens
                          THEN Append(log, [ev |-> "open", node |-> Top.node])
                          ELSE log
                /\ UNCHANGED <<gen, error>>
    /\ UNCHANGED <<cfg, consumer, callerOpen, wpc, cn, rg, sf, bl, fb, inst, hu, bd>>

(* lines 188-190: the node the call was given *)
GenTest ==
    /\ Running
    /\ Top.pc = "test"
    /\ IF Matches(cfg, Top.node)
       THEN Emit(Top.node, SetTop([Top EXCEPT !.pc = "abs"]))
       ELSE /\ stack' = SetTop([Top EXCEPT !.pc = "abs"])
            /\ UNCHANGED <<gen, log, error>>
    /\ UNCHANGED <<cfg, consumer, libOpen, callerOpen, wpc, cn, rg, sf, bl, fb, inst, hu, bd>>

(* lines 191-194: the depth guard, and h5_object.items() *)
GenAbs ==
    /\ Running
    /\ Top.pc = "abs"
    /\ stack' = SetTop(
           IF Descends(Top.deep)
           THEN [Top EXCEPT !.deep = DeepAfterGuard(Top.deep), !.pc = "for",
                            !.items = items(cfg.tree, Top.node)]
           ELSE [Top EXCEPT !.deep = DeepAfterGuard(Top.deep), !.pc = "exit"])
    /\ UNCHANGED <<cfg, gen, consumer, log, libOpen, callerOpen, error, wpc, cn, rg, sf, bl, fb, inst, hu, bd>>

(* lines 194-204: one turn of the loop over the children *)
GenFor ==
    /\ Running
    /\ Top.pc = "for"
    /\ IF Top.items = <<>>
       THEN /\ stack' = SetTop([Top EXCEPT !.pc = "exit"])
            /\ UNCHANGED <<gen, log, error>>
       ELSE LET value == Head(Top.items)
                rest == SetTop([Top EXCEPT !.items = Tail(Top.items)])
            IN  IF isinstance(cfg.tree[value], "Group")
                THEN /\ stack' = Append(rest, NewFrame(value, "Group", Top.deep))
                     /\ UNCHANGED <<gen, log, error>>
                ELSE IF isinstance(cfg.tree[value], "Dataset") /\ Matches(cfg, value)
                THEN Emit(value, rest)
                ELSE /\ stack' = rest
                     /\ UNCHANGED <<gen, log, error>>
    /\ UNCHANGED <<cfg, consumer, libOpen, callerOpen, wpc, cn, rg, sf, bl, fb, inst, hu, bd>>

(* leaving the with block normally: __exit__(None, None, None), then return *)
GenExit ==
    /\ Running
    /\ Top.pc = "exit"
    /\ LET r == h5FileContext_exit(Top.fobj)
       IN  /\ libOpen' = LibOpenAfterClose(r.closes, libOpen)
           /\ callerOpen' = CallerOpenAfterClose(r.closes, callerOpen)
           /\ log' = log \o CloseEvents(r.closes, Top.node)
    /\ stack' = SubSeq(stack, 1, Len(stack) - 1)
    /\ gen' = IF Len(stack) = 1 THEN "done" ELSE gen
    /\ UNCHANGED <<cfg, consumer, error, wpc, cn, rg, sf, bl, fb, inst, hu, bd>>


(* the consumer stops iterating (break, or it just never pulls again) *)
Stop ==
    /\ cfg.client = "traverse"
    /\ consumer = "iterating"
    /\ gen \in {"created", "suspended"}
    /\ consumer' = "stopped"
    /\ UNCHANGED <<cfg, gen, stack, log, libOpen, callerOpen, error, wpc, cn, rg, sf, bl, fb, inst, hu, bd>>

(* GeneratorExit raised at the yield where the generator is suspended: it  *)
(* leaves the with blocks from the innermost frame outwards, until an      *)
(* __exit__ suppresses it or no frame is left.                             *)
RECURSIVE Unwind(_, _, _, _)
Unwind(frames, nOpen, cOpen, events) ==
    LET f == frames[Len(frames)]
        r == h5FileContext_exit(f.fobj)
        outer == SubSeq(frames, 1, Len(frames) - 1)
        n == LibOpenAfterClose(r.closes, nOpen)
        c == CallerOpenAfterClose(r.closes, cOpen)
        e == events \o CloseEvents(r.closes, f.node)
    IN  IF r.suppress \/ outer = <<>>
        THEN [stack |-> outer, suppressed |-> r.suppress,
              libOpen |-> n, callerOpen |-> c, log |-> e]
        ELSE Unwind(outer, n, c, e)

(* generator.close(): what the runtime does to an abandoned generator when *)
(* it reclaims it, and what an explicit close() does                       *)
Finalize ==
    /\ cfg.client = "traverse"
    /\ consumer = "stopped"
    /\ gen \in {"created", "suspended"}
    /\ IF gen = "created"
       THEN /\ gen' = "closed"
            /\ stack' = <<>>
            /\ UNCHANGED <<log, libOpen, callerOpen>>
       ELSE LET u == Unwind(stack, libOpen, callerOpen, log)
            IN  /\ stack' = IF u.suppressed THEN u.stack ELSE <<>>
                /\ gen' = IF u.suppressed /\ u.stack # <<>> THEN "running" ELSE "closed"
                /\ libOpen' = u.libOpen
                /\ callerOpen' = u.callerOpen
                /\ log' = u.log
    /\ UNCHANGED <<cfg, consumer, error, wpc, cn, rg, sf, bl, fb, inst, hu, bd>>

-----------------------------------------------------------------------------
(* A caller that uses the context directly:                               *)
(*     with h5FileContext(file_name_or_object) as h5_object: body         *)

W_Enter ==
    /\ cfg.client = "with"
    /\ wpc.pc = "start"
    /\ LET r == h5FileContext_enter(cfg.src)
       IN  IF r.exc # "none"
           THEN /\ wpc' = [wpc EXCEPT !.pc = "raised"]
                /\ error' = r.exc
                /\ UNCHANGED <<libOpen, log>>
           ELSE /\ wpc' = [pc |-> "body", h5_object |-> r.handle]
                /\ libOpen' = IF r.opens THEN libOpen + 1 ELSE libOpen
                /\ log' = IF r.opens
                          THEN Append(log, [ev |-> "open", node |-> Root])
                          ELSE log
                /\ UNCHANGED error
    /\ UNCHANGED <<cfg, gen, consumer, stack, callerOpen, cn, rg, sf, bl, fb, inst, hu, bd>>

(* the body completes: __exit__(None, None, None) *)
W_BodyReturn ==
    /\ cfg.client = "with"
    /\ wpc.pc = "body"
    /\ LET r == h5FileContext_exit(cfg.src)
       IN  /\ libOpen' = LibOpenAfterClose(r.closes, libOpen)
           /\ callerOpen' = CallerOpenAfterClose(r.closes, callerOpen)
           /\ log' = log \o CloseEvents(r.closes, Root)
    /\ wpc' = [wpc EXCEPT !.pc = "done"]
    /\ UNCHANGED <<cfg, gen, consumer, stack, error, cn, rg, sf, bl, fb, inst, hu, bd>>

(* the body raises: __exit__(type, value, traceback); the exception goes on *)
(* to the caller unless __exit__ returns a true value                       *)
W_BodyRaise ==
    /\ cfg.client = "with"
    /\ wpc.pc = "body"
    /\ LET r == h5FileContext_exit(cfg.src)
       IN  /\ libOpen' = LibOpenAfterClose(r.closes, libOpen)
           /\ callerOpen' = CallerOpenAfterClose(r.closes, callerOpen)
           /\ log' = log \o CloseEvents(r.closes, Root)
           /\ wpc' = [wpc EXCEPT !.pc = IF r.suppress THEN "swallowed" ELSE "raised"]
           /\ error' = IF r.suppress THEN error ELSE "BodyError"
    /\ UNCHANGED <<cfg, gen, consumer, stack, cn, rg, sf, bl, fb, inst, hu, bd>>

-----------------------------------------------------------------------------
(* Inputs *)

DeepValues == (-MaxDeep..MaxDeep) \cup {DefaultDeep}

GroupsOf(tree) == {n \in DOMAIN tree : tree[n] = "Group"}

(* the calls of yield_items under study: over a path string, every store,  *)
(* depth budget and pair of criteria; over an open File, an open Group (any *)
(* Group of the store) or a value of another type, every store and depth    *)
(* budget with the default criteria                                         *)
IsTraverseConfig(c) ==
    /\ c.client = "traverse"
    /\ c.start \in (IF c.src = "Group" THEN GroupsOf(c.tree) ELSE {Root})
    /\ c.src # "str" => c.name_criteria = "None" /\ c.object_criteria = "None"

(* the direct uses of the context: one per kind of file_name_or_object *)
IsWithConfig(c) ==
    /\ c.client = "with"
    /\ c.tree = (Root :> "Group")
    /\ c.start = Root
    /\ c.deep = DefaultDeep
    /\ c.name_criteria = "None"
    /\ c.object_criteria = "None"

IdleConfig ==
    [client |-> "none", tree |-> (Root :> "Group"), src |-> "str", start |-> Root,
     deep |-> DefaultDeep, name_criteria |-> "None", object_criteria |-> "None"]

RgIdle == [fn |-> "none", called |-> TRUE]

HuIdle == [pc |-> "none"]

BdIdle == [fn |-> "none", pc |-> "none"]

SfIdle == [pc |-> "none"]

BlIdle == [pc |-> "none"]

FbIdle == [pc |-> "none"]

InstIdle == [pc |-> "none"]

CnIdle ==
    [path |-> <<>>, args |-> <<>>, operator |-> "and", called |-> TRUE, result |-> TRUE]

InitTraversal(c) ==
    /\ cfg = c
    /\ gen = IF c.client = "traverse" THEN "created" ELSE "none"
    /\ consumer = IF c.client = "traverse" THEN "iterating" ELSE "none"
    /\ stack = IF c.client = "traverse"
               THEN <<NewFrame(c.start, c.src, c.deep)>>
               ELSE <<>>
    /\ log = <<>>
    /\ libOpen = 0
    /\ callerOpen = (c.src \in {"File", "Group"} /\ c.client # "none")
    /\ error = "none"
    /\ wpc = [pc |-> IF c.client = "with" THEN "start" ELSE "none",
              h5_object |-> "nothing"]

Init ==
    /\ sf = SfIdle
    /\ bl = BlIdle
    /\ fb = FbIdle
    /\ inst = InstIdle
    /\ \E t \in Trees, k \in ObjectKinds, d \in DeepValues,
          nc \in NameCriteria, oc \in ObjectCriteria, cl \in {"traverse", "with"} :
          \E n \in DOMAIN t :
             LET c == [client |-> cl, tree |-> t, src |-> k, start |-> n, deep |-> d,
                       name_criteria |-> nc, object_criteria |-> oc]
             IN  /\ IsTraverseConfig(c) \/ IsWithConfig(c)
                 /\ InitTraversal(c)
    /\ cn = CnIdle
    /\ rg = RgIdle
    /\ hu = HuIdle
    /\ bd = BdIdle

Next ==
    \/ Next_item
    \/ GenWith
    \/ GenTest
    \/ GenAbs
    \/ GenFor
    \/ GenExit
    \/ Stop
    \/ Finalize
    \/ W_Enter
    \/ W_BodyReturn
    \/ W_BodyRaise

Spec == Init /\ [][Next]_vars


-----------------------------------------------------------------------------
(* criteria_name called on its own: inputs drawn in Init, one action applies it *)

CnChars == {"/", "a"}

Clauses == {"in_path", "not_in_path", "starts", "ends", "not_starts", "not_ends"}

CnPaths == StringsUpTo(CnChars, MaxPathLen)

CnPatterns == StringsUpTo(CnChars, MaxPatLen)

CnLists == UNION {[1..n -> CnPatterns] : n \in 0..MaxList}

(* 'and', 'or' and a value that is neither *)
CnOperators == {"and", "or", "xor"}

(* one clause given any list, or two clauses given one pattern each *)
CnArgs ==
    {[c \in Clauses |-> IF c = k THEN l ELSE <<>>] : k \in Clauses, l \in CnLists}
    \cup
    {[c \in Clauses |-> IF c = k1 THEN <<p1>> ELSE IF c = k2 THEN <<p2>> ELSE <<>>] :
        k1 \in Clauses, k2 \in Clauses, p1 \in CnPatterns, p2 \in CnPatterns}

InitCriteria ==
    /\ sf = SfIdle
    /\ bl = BlIdle
    /\ fb = FbIdle
    /\ inst = InstIdle
    /\ InitTraversal(IdleConfig)
    /\ \E p \in CnPaths, a \in CnArgs, o \in CnOperators :
          cn = [path |-> p, args |-> a, operator |-> o,
                called |-> FALSE, result |-> FALSE]
    /\ rg = RgIdle
    /\ hu = HuIdle
    /\ bd = BdIdle

Call_criteria_name ==
    /\ ~cn.called
    /\ cn' = [cn EXCEPT !.called = TRUE, !.result =
                 criteria_name(cn.path, cn.args["in_path"], cn.args["not_in_path"],
                               cn.args["starts"], cn.args["ends"],
                               cn.args["not_starts"], cn.args["not_ends"],
                               cn.operator)]
    /\ UNCHANGED <<travVars, rg, sf, bl, fb, inst, hu, bd>>

NextCriteria == Call_criteria_name

SpecCriteria == InitCriteria /\ [][NextCriteria]_vars

-----------------------------------------------------------------------------
(* analysis.py and methods.py: find_near and array_region                   *)
(*                                                                          *)
(* An array is its number of dimensions and its rows, a row being the tuple *)
(* of its entries: <<value>> in a 1-D array, <<abscissa, intensity>> in an  *)
(* N x 2 array.  Indices are numpy's: they count from 0.                    *)

(* np.abs of a number *)
np_abs(x) == IF x < 0 THEN 0 - x ELSE x

(* np.abs(a - Near) of a 1-D array *)
Distances(a, Near) == [k \in 1..Len(a) |-> np_abs(a[k] - Near)]

(* faulty variant: the last of the indices of the minimum *)
argmin_Last(d) ==
    CHOOSE k \in 0..(Len(d) - 1) :
        /\ \A i \in 1..Len(d) : d[k + 1] <= d[i]
        /\ \A i \in (k + 2)..Len(d) : d[i] > d[k + 1]

RECURSIVE ArgminScan(_, _, _)
(* the scan of argmin: a later element replaces the best one only if it is smaller *)
ArgminScan(d, k, best) ==
    IF k > Len(d) THEN best - 1
    ELSE ArgminScan(d, k + 1, IF d[k] < d[best] THEN k ELSE best)

(* ndarray.argmin of a non-empty 1-D array: the first index of the minimum *)
argmin(d) == ArgminScan(d, 1, 1)

(* find_near(a, Near); argmin of an empty array raises ValueError *)
find_near(a, Near) ==
    IF Len(a) = 0 THEN [exc |-> "ValueError", value |-> -1]
    ELSE [exc |-> "None", value |-> argmin(Distances(a, Near))]

Min(x, y) == IF x <= y THEN x ELSE y

(* a[begin:end] with 0 <= begin, 0 <= end *)
Slice(rows, begin, end) == SubSeq(rows, begin + 1, Min(end, Len(rows)))

(* a[begin:end:-1] with 0 <= end < begin *)
SliceRev(rows, begin, end) ==
    LET first == Min(begin, Len(rows) - 1)
    IN  IF first <= end THEN <<>>
        ELSE [k \in 1..(first - end) |-> rows[first + 2 - k]]

(* __region of analysis.py *)
__region(rows, begin, end) ==
    IF begin <= end THEN Slice(rows, begin, end) ELSE Slice(rows, end, begin)

(* __region of methods.py *)
methods__region(rows, begin, end) ==
    IF begin <= end THEN Slice(rows, begin, end) ELSE SliceRev(rows, begin, end)

RegionOf(version, rows, begin, end) ==
    IF version = "analysis" THEN __region(rows, begin, end)
    ELSE methods__region(rows, begin, end)

(* the entries of a 1-D array *)
Entries(a) == [k \in 1..Len(a.rows) |-> a.rows[k][1]]

(* a[:, dim]: IndexError for a 1-D array or a column an N x 2 array has not *)
Column(a, dim) ==
    IF a.ndim = 1 \/ dim \notin -2..1 THEN [exc |-> "IndexError", value |-> <<>>]
    ELSE [exc |-> "None",
          value |-> [k \in 1..Len(a.rows) |-> a.rows[k][(dim % 2) + 1]]]

(* begin, end = a[interval[0], interval[1]]: the subscript is the tuple     *)
(* (interval[0], interval[1]), one index per axis.  A 1-D array has one     *)
(* axis: IndexError.  An N x 2 array gives the single element of that row   *)
(* and column, which cannot be unpacked: TypeError; or IndexError when the  *)
(* row or the column does not exist.                                        *)
IndexModeBounds(a, interval) ==
    IF a.ndim = 1 THEN "IndexError"
    ELSE IF /\ interval[1] \in (0 - Len(a.rows))..(Len(a.rows) - 1)
            /\ interval[2] \in -2..1
         THEN "TypeError"
         ELSE "IndexError"

(* lines 59-62: the begin and end of one interval *)
Resolve(a, interval, index, dim) ==
    IF index
    THEN [exc |-> IndexModeBounds(a, interval), begin |-> 0, end |-> 0]
    ELSE LET col == Column(a, dim)
             b == find_near(col.value, interval[1])
             e == find_near(col.value, interval[2])
         IN  IF col.exc # "None" THEN [exc |-> col.exc, begin |-> 0, end |-> 0]
             ELSE IF b.exc # "None" THEN [exc |-> b.exc, begin |-> 0, end |-> 0]
             ELSE [exc |-> "None", begin |-> b.value, end |-> e.value]

(* faulty variant: the new region put in front of what was collected *)
np_concatenate_Swapped(region, piece) == piece \o region

(* np.concatenate((region, piece)): along axis 0 *)
np_concatenate(region, piece) == region \o piece

Unbound == [bound |-> FALSE, rows |-> <<>>]

Bound(rows) == [bound |-> TRUE, rows |-> rows]

(* values of the arrays, and the values and positions intervals are made of *)
ArrayValues == {1, 2, 3}

Targets == {1, 2, 3}

RECURSIVE SeqsUpTo(_, _)
SeqsUpTo(S, n) ==
    IF n = 0 THEN {<<>>}
    ELSE LET shorter == SeqsUpTo(S, n - 1)
         IN  shorter \cup {Append(s, x) : s \in {t \in shorter : Len(t) = n - 1}, x \in S}

(* a row of an N x 2 array: the columns differ, and tell the rows apart *)
RowValues == {<<1, 3>>, <<2, 2>>, <<3, 1>>}

Arrays1D == {[ndim |-> 1, rows |-> r] : r \in SeqsUpTo({<<v>> : v \in ArrayValues}, MaxRows)}

Arrays2D == {[ndim |-> 2, rows |-> r] : r \in SeqsUpTo(RowValues, MaxRows)}

(* intervals: begin before end, end before begin, both the same; as        *)
(* positions, [i, j] with i <= j <= len(a) and with j < i                   *)
Intervals == {<<1, 2>>, <<1, 3>>, <<2, 3>>, <<2, 2>>, <<3, 1>>}

IntervalLists == SeqsUpTo(Intervals, MaxIntervals)

RgCall(fn, version, a, Near, intervals, index, dim) ==
    [fn |-> fn, version |-> version, a |-> a, Near |-> Near,
     intervals |-> intervals, index |-> index, dim |-> dim,
     pc |-> "call", i |-> 0, region |-> Unbound,
     exc |-> "None", value |-> -1, called |-> FALSE]

InitRegion ==
    /\ sf = SfIdle
    /\ bl = BlIdle
    /\ fb = FbIdle
    /\ inst = InstIdle
    /\ InitTraversal(IdleConfig)
    /\ cn = CnIdle
    /\ hu = HuIdle
    /\ bd = BdIdle
    /\ \/ \E a \in Arrays1D, t \in Targets :
             rg = RgCall("find_near", "analysis", a, t, <<>>, FALSE, 0)
       \/ \E a \in Arrays1D \cup Arrays2D, l \in IntervalLists,
             v \in {"analysis", "methods"}, x \in BOOLEAN, d \in {0, 1} :
             \* dim is read in value mode only, and a 1-D array has no columns
             /\ (x \/ a.ndim = 1) => d = 0
             /\ rg = RgCall("array_region", v, a, 0, l, x, d)

(* find_near called on its own *)
Call_find_near ==
    /\ rg.fn = "find_near" /\ rg.pc = "call"
    /\ LET r == find_near(Entries(rg.a), rg.Near)
       IN  rg' = [rg EXCEPT !.pc = "done", !.called = TRUE,
                            !.exc = r.exc, !.value = r.value]
    /\ UNCHANGED <<travVars, cn, sf, bl, fb, inst, hu, bd>>

(* array_region up to its loop: analysis.py tests `if intervals:` and takes *)
(* `region = a` when there are none; methods.py goes straight to the loop   *)
Call_array_region ==
    /\ rg.fn = "array_region" /\ rg.pc = "call"
    /\ rg' = [rg EXCEPT
                !.called = TRUE,
                !.pc = IF Len(rg.intervals) > 0 THEN "for" ELSE "return",
                !.region = IF Len(rg.intervals) = 0 /\ rg.version = "analysis"
                           THEN Bound(rg.a.rows) ELSE Unbound]
    /\ UNCHANGED <<travVars, cn, sf, bl, fb, inst, hu, bd>>

(* one turn of `for i, interval in enumerate(intervals)` *)
AR_For ==
    /\ rg.fn = "array_region" /\ rg.pc = "for"
    /\ LET r == Resolve(rg.a, rg.intervals[rg.i + 1], rg.index, rg.dim)
           piece == RegionOf(rg.version, rg.a.rows, r.begin, r.end)
       IN  IF r.exc # "None"
           THEN rg' = [rg EXCEPT !.pc = "done", !.exc = r.exc]
           ELSE rg' = [rg EXCEPT
                         !.region = IF rg.i = 0 THEN Bound(piece)
                                    ELSE Bound(np_concatenate(rg.region.rows, piece)),
                         !.i = rg.i + 1,
                         !.pc = IF rg.i + 1 < Len(rg.intervals) THEN "for" ELSE "return"]
    /\ UNCHANGED <<travVars, cn, sf, bl, fb, inst, hu, bd>>

(* return region: UnboundLocalError if no statement has assigned it *)
AR_Return ==
    /\ rg.fn = "array_region" /\ rg.pc = "return"
    /\ rg' = [rg EXCEPT !.pc = "done",
                        !.exc = IF rg.region.bound THEN "None" ELSE "UnboundLocalError"]
    /\ UNCHANGED <<travVars, cn, sf, bl, fb, inst, hu, bd>>

NextRegion ==
    \/ Call_find_near
    \/ Call_array_region
    \/ AR_For
    \/ AR_Return

SpecRegion == InitRegion /\ [][NextRegion]_vars

-----------------------------------------------------------------------------
(* h5Utils.mk_keys: the names of the nodes select_items yields, sorted if   *)
(* the instance has a sort function                                         *)
(*                                                                          *)
(* Functions are named: "None" for an argument left out, "_default_func",   *)
(* "_default_criteria", and two sort functions func(h5_obj, key):           *)
(* "len_key" returns len(key) and "neg_len_key" returns -len(key).          *)

(* x or y, for x and y a function or None *)
Or(x, y) == IF x = "None" THEN y ELSE x

SortFuncs == {"len_key", "neg_len_key"}

(* self.func(h5_obj, key) *)
SortValue(func, key) == IF func = "len_key" THEN Len(key) ELSE 0 - Len(key)

(* faulty variant: an element is put in front of those of equal value *)
InsertSorted_Before(s, key, func) ==
    LET n == Cardinality({i \in 1..Len(s) : SortValue(func, s[i]) < SortValue(func, key)})
    IN  SubSeq(s, 1, n) \o <<key>> \o SubSeq(s, n + 1, Len(s))

(* where a stable sort puts one more element: behind those that are not greater *)
InsertSorted(s, key, func) ==
    LET n == Cardinality({i \in 1..Len(s) : SortValue(func, s[i]) <= SortValue(func, key)})
    IN  SubSeq(s, 1, n) \o <<key>> \o SubSeq(s, n + 1, Len(s))

RECURSIVE sorted(_, _)
(* sorted(keys, key=_func): ascending, stable *)
sorted(keys, func) ==
    IF keys = <<>> THEN <<>>
    ELSE InsertSorted(sorted(SubSeq(keys, 1, Len(keys) - 1), func), keys[Len(keys)], func)

(* _func is called once on each key, in the order of keys *)
SortKeyEvents(keys) == [i \in 1..Len(keys) |-> [ev |-> "sortkey", node |-> keys[i]]]

(* the node the generator has just handed over *)
LastYielded == log[Len(log)].node

(* mk_keys is called on its own, or by mk_map *)
KeysClient == cfg.client \in {"mk_keys", "mk_map"}

(* the depth budgets of the instances under study *)
KeysDeep == {0, 1, DefaultDeep}

IsKeysConfig(c) ==
    /\ c.client = "mk_keys"
    /\ c.src \in {"str", "File", "Group"}
    /\ c.start \in (IF c.src = "Group" THEN GroupsOf(c.tree) ELSE {Root})
    /\ c.src # "str" => c.name_criteria = "None" /\ c.object_criteria = "None"

(* h5Utils(file_name_or_object, deep=..., name_criteria=..., object_criteria=..., *)
(* func=init_func): line 420, self.func = func or _default_func; then              *)
(* mk_keys(func=arg_func)                                                         *)
InitKeys ==
    /\ sf = SfIdle
    /\ bl = BlIdle
    /\ fb = FbIdle
    /\ inst = InstIdle
    /\ \E t \in Trees, k \in ObjectKinds, d \in KeysDeep,
          nc \in NameCriteria, oc \in ObjectCriteria :
          \E n \in DOMAIN t :
             LET c == [client |-> "mk_keys", tree |-> t, src |-> k, start |-> n,
                       deep |-> d, name_criteria |-> nc, object_criteria |-> oc]
             IN  /\ IsKeysConfig(c)
                 /\ InitTraversal(c)
    /\ \E f \in SortFuncs \cup {"None"}, g \in SortFuncs \cup {"None"} :
          hu = [pc |-> "call", arg_func |-> g, func |-> Or(f, "_default_func"),
                yield_func |-> "None", keys |-> <<>>, sorted |-> FALSE]
    /\ cn = CnIdle
    /\ rg = RgIdle
    /\ bd = BdIdle

(* lines 521-524: set_kwargs, keys = (), and the generator select_items makes *)
(* with func=_default_criteria                                                *)
mk_keys_call ==
    /\ KeysClient /\ hu.pc = "call"
    /\ hu' = [hu EXCEPT !.pc = "for",
                        !.func = Or(hu.arg_func, hu.func),
                        !.yield_func = Or("_default_criteria", Or(hu.arg_func, hu.func))]
    /\ gen' = "created"
    /\ consumer' = "iterating"
    /\ stack' = <<NewFrame(cfg.start, cfg.src, cfg.deep)>>
    /\ UNCHANGED <<cfg, log, libOpen, callerOpen, error, wpc, cn, rg, sf, bl, fb, inst, bd>>

(* lines 524-525: the loop takes the next item, after adding the name of the *)
(* item it was handed to keys; it ends when the generator is exhausted       *)
mk_keys_for ==
    /\ KeysClient /\ hu.pc = "for"
    /\ gen \in {"created", "suspended", "done"}
    /\ gen' = IF gen = "done" THEN gen ELSE "running"
    /\ hu' = [hu EXCEPT
                !.keys = IF gen = "suspended"
                         THEN Append(hu.keys, NameOf(LastYielded)) ELSE hu.keys,
                !.pc = IF gen = "done" THEN "sort" ELSE "for"]
    /\ consumer' = IF gen = "done" THEN "finished" ELSE consumer
    /\ UNCHANGED <<cfg, stack, log, libOpen, callerOpen, error, wpc, cn, rg, sf, bl, fb, inst, bd>>

(* lines 527-532: the keys sorted under `with self.access_h5() as h5_obj`, if *)
(* self.func is not _default_func; self.keys = keys; return keys             *)
mk_keys_sort ==
    /\ KeysClient /\ hu.pc = "sort"
    /\ IF hu.func # "_default_func"
       THEN LET enter == h5FileContext_enter(cfg.src)
                exit == h5FileContext_exit(cfg.src)
            IN  /\ hu' = [hu EXCEPT !.pc = "done", !.sorted = TRUE,
                                    !.keys = sorted(hu.keys, hu.func)]
                /\ log' = log
                          \o (IF enter.opens THEN <<[ev |-> "open", node |-> Root]>> ELSE <<>>)
                          \o SortKeyEvents(hu.keys)
                          \o CloseEvents(exit.closes, Root)
                /\ libOpen' = LibOpenAfterClose(exit.closes,
                                  IF enter.opens THEN libOpen + 1 ELSE libOpen)
                /\ callerOpen' = CallerOpenAfterClose(exit.closes, callerOpen)
       ELSE /\ hu' = [hu EXCEPT !.pc = "done"]
            /\ UNCHANGED <<log, libOpen, callerOpen>>
    /\ UNCHANGED <<cfg, gen, consumer, stack, error, wpc, cn, rg, sf, bl, fb, inst, bd>>

NextKeys ==
    \/ mk_keys_call
    \/ mk_keys_for
    \/ GenWith
    \/ GenTest
    \/ GenAbs
    \/ GenFor
    \/ GenExit
    \/ mk_keys_sort

SpecKeys == InitKeys /\ [][NextKeys]_vars

-----------------------------------------------------------------------------
(* analysis.py: mk_map and mk_profile, over h5Utils.apply_keys              *)
(*                                                                          *)
(* The Datasets of a store hold an R x 2 array <<abscissa, intensity>> and  *)
(* two numeric attributes: the one xattr names and one named "T".  A key is *)
(* the name of a node.  What a builder has created is kept apart from the   *)
(* tree it started from, as a sequence of new Datasets.                     *)

LeafCatalogue ==
    << [xattr |-> 10, T |-> 1, array |-> << <<1, 5>>, <<2, 6>> >>],
       [xattr |-> 20, T |-> 3, array |-> << <<2, 7>>, <<1, 8>> >>],
       [xattr |-> 30, T |-> 5, array |-> << <<1, 9>>, <<1, 4>> >>] >>

(* the ways the catalogue is laid over the Datasets of a store *)
Shifts == {0, 1}

(* the content of a Dataset: siblings differ *)
LeafOf(node, shift) ==
    LET last == IF node # Root /\ node[Len(node)] = "b" THEN 1 ELSE 0
    IN  LeafCatalogue[((2 * Len(node) + last + shift) % Len(LeafCatalogue)) + 1]

DatasetsOf(tree) == {n \in DOMAIN tree : tree[n] = "Dataset"}

(* h5_object.get(key), key an absolute name *)
NodeNamed(tree, key) == CHOOSE n \in DOMAIN tree : NameOf(n) = key

(* the names a builder is asked to give its output: "a" may be taken, "m" never is *)
OutputNames == {"a", "m"}

(* attributes=[] and attributes=['T'] *)
AttributeLists == {<<>>, <<"T">>}

(* func(value, dataset) of mk_profile: None, or lambda y, dataset: -y *)
ProfileFuncs == {"None", "negate"}

np_zeros(n) == [k \in 1..n |-> 0]

(* array[:, j] *)
Col(array, j) == [r \in 1..Len(array) |-> array[r][j + 1]]

(* X, Y = np.meshgrid(x, y): len(y) rows of len(x) entries *)
np_meshgrid(x, y) ==
    [X |-> [r \in 1..Len(y) |-> x],
     Y |-> [r \in 1..Len(y) |-> [k \in 1..Len(x) |-> y[r]]]]

np_zeros_like(M) == [r \in 1..Len(M) |-> [k \in 1..Len(M[r]) |-> 0]]

(* faulty variant: every column is written over the first one *)
SetColumn_First(M, count, col) ==
    [r \in 1..Len(M) |-> [M[r] EXCEPT ![1] = col[r]]]

(* M[:, count] = col *)
SetColumn(M, count, col) ==
    [r \in 1..Len(M) |-> [M[r] EXCEPT ![count + 1] = col[r]]]

(* a scalar assigned to a column is repeated down the rows *)
Broadcast(v, M) == [r \in 1..Len(M) |-> v]

(* faulty variant: the two columns the other way round *)
np_stack_Swapped(x, y) == [k \in 1..Len(x) |-> <<y[k], x[k]>>]

(* np.stack((x, y), axis=-1) *)
np_stack(x, y) == [k \in 1..Len(x) |-> <<x[k], y[k]>>]

(* faulty variant: the parent Group of the last Dataset *)
WalkToRoot_Parent(node) == Parent(node)

RECURSIVE WalkToRoot(_)
(* root = dataset; while True: root = root.parent; if root.name == '/': break *)
WalkToRoot(node) ==
    LET root == Parent(node)
    IN  IF NameOf(root) = <<"/">> THEN root ELSE WalkToRoot(root)

(* faulty variant: a name that is taken is no obstacle *)
create_dataset_Overwrites(taken, parent, name) == "None"

(* Group.create_dataset(name, ...): ValueError if the Group has a child of that name *)
create_dataset(taken, parent, name) ==
    IF Append(parent, name) \in taken THEN "ValueError" ELSE "None"

NoAttrs == [has |-> FALSE, sum |-> 0, n |-> 0]

(* the nodes of the store, those a builder has created included *)
Taken == DOMAIN cfg.tree \cup {Append(bd.created[i].parent, bd.created[i].name) :
                                   i \in 1..Len(bd.created)}

NewDataset(parent, name, data, attrs) ==
    [parent |-> parent, name |-> name, data |-> data, attrs |-> attrs]

BdCall(fn, name, shift, attributes, profile_value, func, keys) ==
    [fn |-> fn, name |-> name, shift |-> shift, attributes |-> attributes,
     profile_value |-> profile_value, func |-> func, keys |-> keys,
     pc |-> "call", count |-> 0, opened |-> FALSE,
     x |-> <<>>, y |-> <<>>, X |-> <<>>, Y |-> <<>>, Z |-> <<>>,
     attributes_dict |-> NoAttrs, created |-> <<>>, exc |-> "None"]

HuNone ==
    [pc |-> "none", arg_func |-> "None", func |-> "_default_func",
     yield_func |-> "None", keys |-> <<>>, sorted |-> FALSE]

(* the keys handed to mk_profile: names of Datasets, none twice *)
KeyLists(tree) ==
    {s \in SeqsUpTo({NameOf(n) : n \in DatasetsOf(tree)}, MaxKeys) :
        \A i, j \in 1..Len(s) : i # j => s[i] # s[j]}

(* mk_map(file_name_or_object, name, object_criteria=is_dataset, ...) *)
IsMapConfig(c) ==
    /\ c.client = "mk_map"
    /\ c.src \in {"str", "Group"}
    /\ c.start \in (IF c.src = "Group" THEN GroupsOf(c.tree) ELSE {Root})
    /\ c.deep = DefaultDeep
    /\ c.object_criteria = "is_dataset"
    /\ c.name_criteria \in {"None", "ends_a"}

(* mk_profile(file_name_or_object, keys, profile_value, name, ...) *)
IsProfileConfig(c) ==
    /\ c.client = "mk_profile"
    /\ c.src \in {"str", "File"}
    /\ c.start = Root
    /\ c.deep = DefaultDeep
    /\ c.object_criteria = "None"
    /\ c.name_criteria = "None"

InitBuild ==
    /\ sf = SfIdle
    /\ bl = BlIdle
    /\ fb = FbIdle
    /\ inst = InstIdle
    /\ cn = CnIdle
    /\ rg = RgIdle
    /\ \E t \in Trees, k \in ObjectKinds, nc \in NameCriteria, oc \in ObjectCriteria,
          cl \in {"mk_map", "mk_profile"} :
          \E n \in DOMAIN t :
             LET c == [client |-> cl, tree |-> t, src |-> k, start |-> n,
                       deep |-> DefaultDeep, name_criteria |-> nc, object_criteria |-> oc]
             IN  /\ IsMapConfig(c) \/ IsProfileConfig(c)
                 /\ InitTraversal(c)
                 /\ \E name \in OutputNames, shift \in Shifts, attributes \in AttributeLists :
                       IF cl = "mk_map"
                       THEN /\ bd = BdCall(cl, name, shift, attributes, 0, "None", <<>>)
                            /\ \E f \in {"None", "neg_len_key"} :
                                  hu = [HuNone EXCEPT !.pc = "call",
                                                      !.func = Or(f, "_default_func")]
                       ELSE /\ hu = HuNone
                            /\ \E keys \in KeyLists(t), v \in {1, 2}, f \in ProfileFuncs :
                                  bd = BdCall(cl, name, shift, attributes, v, f, keys)

(* mk_map, lines 225-229: mk_keys has returned; sample.func = _default_func; *)
(* x = np.zeros(len(keys)); the generator of apply_keys(keys) is made        *)
mk_map_call ==
    /\ bd.fn = "mk_map" /\ bd.pc = "call" /\ hu.pc = "done"
    /\ bd' = [bd EXCEPT !.pc = "with", !.keys = hu.keys, !.x = np_zeros(Len(hu.keys))]
    /\ hu' = [hu EXCEPT !.func = "_default_func"]
    /\ UNCHANGED <<travVars, cn, rg, sf, bl, fb, inst>>

(* mk_profile, lines 309-313: the instance, x and y, the generator *)
mk_profile_call ==
    /\ bd.fn = "mk_profile" /\ bd.pc = "call"
    /\ bd' = [bd EXCEPT !.pc = "with", !.x = np_zeros(Len(bd.keys)),
                        !.y = np_zeros(Len(bd.keys))]
    /\ UNCHANGED <<travVars, cn, rg, sf, bl, fb, inst, hu>>

(* apply_keys, line 538: with self.access_h5(mode=mode) as h5_object, entered *)
(* when the loop of the builder asks for the first item                       *)
apply_keys_with ==
    /\ bd.pc = "with"
    /\ LET r == h5FileContext_enter(cfg.src)
       IN  /\ libOpen' = IF r.opens THEN libOpen + 1 ELSE libOpen
           /\ log' = IF r.opens THEN Append(log, [ev |-> "open", node |-> Root]) ELSE log
           /\ bd' = [bd EXCEPT !.pc = "for", !.opened = TRUE]
    /\ UNCHANGED <<cfg, gen, consumer, stack, callerOpen, error, wpc, cn, rg, sf, bl, fb, inst, hu>>

(* the Dataset apply_keys yields next: h5_object.get(key) *)
NextNode == NodeNamed(cfg.tree, bd.keys[bd.count + 1])

LastTurn == bd.count = Len(bd.keys) - 1

(* mk_map, lines 231-264: one turn of the loop *)
mk_map_body ==
    /\ bd.fn = "mk_map" /\ bd.pc = "for" /\ bd.count < Len(bd.keys)
    /\ LET dataset == LeafOf(NextNode, bd.shift)
           array == dataset.array
           x == [bd.x EXCEPT ![bd.count + 1] = dataset.xattr]
           mesh == np_meshgrid(x, Col(array, 0))
           X == IF bd.count = 0 THEN mesh.X
                ELSE SetColumn(bd.X, bd.count, Broadcast(x[bd.count + 1], bd.X))
           Y == IF bd.count = 0 THEN mesh.Y ELSE bd.Y
           Z == SetColumn(IF bd.count = 0 THEN np_zeros_like(X) ELSE bd.Z,
                          bd.count, Col(array, 1))
           attributes_dict ==
               IF bd.attributes = <<>> THEN bd.attributes_dict
               ELSE [has |-> TRUE, n |-> bd.count + 1,
                     sum |-> (IF bd.count = 0 THEN 0 ELSE bd.attributes_dict.sum) + dataset.T]
           root == WalkToRoot(NextNode)
           raised == create_dataset(Taken, root, bd.name)
       IN  bd' = [bd EXCEPT
                    !.count = bd.count + 1,
                    !.x = x, !.y = Col(array, 0), !.X = X, !.Y = Y, !.Z = Z,
                    !.attributes_dict = attributes_dict,
                    !.created = IF LastTurn /\ raised = "None"
                                THEN Append(bd.created,
                                            NewDataset(root, bd.name, <<X, Y, Z>>, attributes_dict))
                                ELSE bd.created]
    /\ UNCHANGED <<travVars, cn, rg, sf, bl, fb, inst, hu>>

(* mk_profile, lines 314-333: one turn of the loop.  attributes_dict is not *)
(* a name of mk_profile: reading it is a NameError, which the `except       *)
(* ValueError` does not catch.                                              *)
mk_profile_body ==
    /\ bd.fn = "mk_profile" /\ bd.pc = "for" /\ bd.count < Len(bd.keys)
    /\ LET dataset == LeafOf(NextNode, bd.shift)
           x == [bd.x EXCEPT ![bd.count + 1] = dataset.xattr]
           point == find_near(Col(dataset.array, 0), bd.profile_value).value
           value == dataset.array[point + 1][2]
           y == [bd.y EXCEPT ![bd.count + 1] =
                    IF bd.func = "None" THEN value ELSE 0 - value]
           root == WalkToRoot(NextNode)
           raised == create_dataset(Taken, root, bd.name)
           written == LastTurn /\ raised = "None"
       IN  bd' = [bd EXCEPT
                    !.count = bd.count + 1, !.x = x, !.y = y,
                    !.created = IF written
                                THEN Append(bd.created,
                                            NewDataset(root, bd.name, np_stack(x, y), NoAttrs))
                                ELSE bd.created,
                    !.exc = IF written /\ bd.attributes # <<>> THEN "NameError" ELSE "None",
                    !.pc = IF written /\ bd.attributes # <<>> THEN "raised" ELSE "for"]
    /\ UNCHANGED <<travVars, cn, rg, sf, bl, fb, inst, hu>>

(* the handle the with block of apply_keys is left with *)
LeaveApplyKeys ==
    LET r == h5FileContext_exit(cfg.src)
    IN  /\ libOpen' = LibOpenAfterClose(r.closes, libOpen)
        /\ callerOpen' = CallerOpenAfterClose(r.closes, callerOpen)
        /\ log' = log \o CloseEvents(r.closes, Root)

(* apply_keys has no key left: the with block is left, the loop of the *)
(* builder ends and the builder returns None                           *)
apply_keys_exit ==
    /\ bd.pc = "for" /\ bd.count = Len(bd.keys)
    /\ LeaveApplyKeys
    /\ bd' = [bd EXCEPT !.pc = "done", !.opened = FALSE]
    /\ UNCHANGED <<cfg, gen, consumer, stack, error, wpc, cn, rg, sf, bl, fb, inst, hu>>

(* the builder has raised: the generator of apply_keys, suspended at its *)
(* yield, is closed when it is reclaimed, which leaves its with block    *)
apply_keys_close ==
    /\ bd.pc = "raised" /\ bd.opened
    /\ LeaveApplyKeys
    /\ bd' = [bd EXCEPT !.opened = FALSE]
    /\ UNCHANGED <<cfg, gen, consumer, stack, error, wpc, cn, rg, sf, bl, fb, inst, hu>>

NextBuild ==
    \/ mk_keys_call
    \/ mk_keys_for
    \/ GenWith
    \/ GenTest
    \/ GenAbs
    \/ GenFor
    \/ GenExit
    \/ mk_keys_sort
    \/ mk_map_call
    \/ mk_profile_call
    \/ apply_keys_with
    \/ mk_map_body
    \/ mk_profile_body
    \/ apply_keys_exit
    \/ apply_keys_close

SpecBuild == InitBuild /\ [][NextBuild]_vars

-----------------------------------------------------------------------------
(* h5utils.py: string_to_float                                              *)
(*                                                                          *)
(* The characters of the strings under study: two digits, an ASCII letter,  *)
(* three punctuation marks and a blank.  A float is NaN or a number, kept   *)
(* as the digits before and after its decimal point.                        *)

SfDigits == {"1", "2"}

SfLetters == {"a"}

SfPunctuation == {"-", "_", "."}

SfChars == SfDigits \cup SfLetters \cup SfPunctuation \cup {" "}

(* the characters given as `dot` *)
SfDots == {"_", ".", "-", "a", "1"}

(* every occurrence of the characters of a set removed: str.replace(c, '') for each *)
RemoveAll(s, chars) ==
    LET keep(c) == c \notin chars IN SelectSeq(s, keep)

(* str.replace(old, new) for one-character strings *)
Replace(s, old, new) == [i \in 1..Len(s) |-> IF s[i] = old THEN new ELSE s[i]]

(* lines 329-334: the index of the first digit, 0 if there is none *)
Starts(s) ==
    IF \E i \in 1..Len(s) : s[i] \in SfDigits
    THEN (CHOOSE i \in 1..Len(s) :
              s[i] \in SfDigits /\ \A j \in 1..(i - 1) : s[j] \notin SfDigits) - 1
    ELSE 0

(* lines 330-342: the index, counted from starts, of the second dot of the *)
(* string from starts on; len(number_string) if it has fewer than two      *)
Ends(s, starts) ==
    LET rest == SubSeq(s, starts + 1, Len(s))
        dotsAt == {i \in 1..Len(rest) : rest[i] = "."}
    IN  IF Cardinality(dotsAt) < 2 THEN Len(s)
        ELSE (CHOOSE i \in dotsAt : Cardinality({j \in dotsAt : j < i}) = 1) - 1

(* str.strip() of blanks *)
Strip(s) ==
    LET inked == {i \in 1..Len(s) : s[i] # " "}
    IN  IF inked = {} THEN <<>>
        ELSE SubSeq(s, CHOOSE i \in inked : \A j \in inked : i <= j,
                       CHOOSE i \in inked : \A j \in inked : j <= i)

NaN == [kind |-> "nan", whole |-> <<>>, frac |-> <<>>]

(* float(s) of a string of digits, dots and blanks: blanks around it are   *)
(* dropped, and what is left must be digits with at most one dot and at    *)
(* least one digit; ValueError otherwise                                   *)
float(s) ==
    LET t == Strip(s)
        dotsAt == {i \in 1..Len(t) : t[i] = "."}
        point == IF dotsAt = {} THEN Len(t) + 1 ELSE CHOOSE i \in dotsAt : TRUE
    IN  IF /\ \A i \in 1..Len(t) : t[i] \in SfDigits \cup {"."}
           /\ Cardinality(dotsAt) <= 1
           /\ \E i \in 1..Len(t) : t[i] \in SfDigits
        THEN [exc |-> "None",
              value |-> [kind |-> "number", whole |-> SubSeq(t, 1, point - 1),
                         frac |-> SubSeq(t, point + 1, Len(t))]]
        ELSE [exc |-> "ValueError", value |-> NaN]

(* faulty variant: no except clause, the error of float() goes to the caller *)
float_or_nan_Raises(s) == float(s)

(* lines 344-349: try: number = float(...) except: number = float('Nan') *)
float_or_nan(s) ==
    IF float(s).exc = "None" THEN float(s) ELSE [exc |-> "None", value |-> NaN]

(* lines 318-326: letters and symbols removed, the dot character made "." *)
Cleaned(number_string, dot) ==
    Replace(RemoveAll(RemoveAll(number_string, SfLetters), SfPunctuation \ {dot}),
            dot, ".")

string_to_float(number_string, dot) ==
    LET s == Cleaned(number_string, dot)
        starts == Starts(s)
        ends == Ends(s, starts)
    IN  float_or_nan(Slice(s, starts, starts + ends))

InitStf ==
    /\ InitTraversal(IdleConfig)
    /\ cn = CnIdle
    /\ rg = RgIdle
    /\ hu = HuIdle
    /\ bd = BdIdle
    /\ bl = BlIdle
    /\ fb = FbIdle
    /\ inst = InstIdle
    /\ \E s \in StringsUpTo(SfChars, MaxStr), dot \in SfDots :
          sf = [pc |-> "call", number_string |-> s, dot |-> dot,
                exc |-> "None", number |-> NaN]

Call_string_to_float ==
    /\ sf.pc = "call"
    /\ LET r == string_to_float(sf.number_string, sf.dot)
       IN  sf' = [sf EXCEPT !.pc = "done", !.exc = r.exc, !.number = r.value]
    /\ UNCHANGED <<travVars, cn, rg, hu, bd, bl, fb, inst>>

NextStf == Call_string_to_float

SpecStf == InitStf /\ [][NextStf]_vars
-----------------------------------------------------------------------------
(* array_region as a function of its arguments: what the steps of the call *)
(* add up to.  The result is the exception raised and the rows returned.   *)

RECURSIVE RegionFold(_, _, _, _, _, _, _)
(* the loop of lines 58-64 from interval i + 1 on *)
RegionFold(version, a, intervals, index, dim, i, region) ==
    IF i = Len(intervals)
    THEN [exc |-> IF region.bound THEN "None" ELSE "UnboundLocalError",
          rows |-> region.rows]
    ELSE LET r == Resolve(a, intervals[i + 1], index, dim)
             piece == RegionOf(version, a.rows, r.begin, r.end)
         IN  IF r.exc # "None" THEN [exc |-> r.exc, rows |-> <<>>]
             ELSE RegionFold(version, a, intervals, index, dim, i + 1,
                             IF i = 0 THEN Bound(piece)
                             ELSE Bound(np_concatenate(region.rows, piece)))

array_region(version, a, intervals, index, dim) ==
    RegionFold(version, a, intervals, index, dim, 0,
               IF intervals = <<>> /\ version = "analysis" THEN Bound(a.rows) ELSE Unbound)

-----------------------------------------------------------------------------
(* analysis.py: baseline                                                    *)
(*                                                                          *)
(* The object handed to baseline is a Dataset holding an N x 2 array, a     *)
(* Group, or a value that is no h5py object.  Its attributes are a function *)
(* from attribute names to arrays.  Strings are sequences of characters.    *)

Str_Baseline == <<"B", "a", "s", "e", "l", "i", "n", "e">>

Str_name == <<"n", "a", "m", "e">>

Str_Interval == <<".", "I", "n", "t", "e", "r", "v", "a", "l">>

Str_Substract == <<".", "S", "u", "b", "s", "t", "r", "a", "c", "t">>

(* lines 161-164: the name the attributes are written under.  The f-strings *)
(* of lines 163 and 164 hold the text `name`, not the field {name}.         *)
BaselineName(name, prefix, suffix) ==
    LET n1 == IF name # <<>> THEN name ELSE Str_Baseline
        n2 == IF prefix # <<>> THEN prefix \o Str_name ELSE n1
    IN  IF suffix # <<>> THEN Str_name \o suffix ELSE n2

(* peakutils.baseline(y, deg, max_it, tol): an array as long as y; it takes *)
(* abs(y).max(), a ValueError for an empty y.  The fitted polynomial is     *)
(* stood for by the least entry of y.                                       *)
peakutils_baseline(y) ==
    IF y = <<>> THEN [exc |-> "ValueError", value |-> <<>>]
    ELSE [exc |-> "None",
          value |-> [i \in 1..Len(y) |-> CHOOSE v \in {y[j] : j \in 1..Len(y)} :
                                             \A j \in 1..Len(y) : v <= y[j]]]

(* faulty variant: np.array hands back the array of the Dataset itself *)
np_array_Alias(array) == [rows |-> array, alias |-> TRUE]

(* np.array(dataset): a new array read from the Dataset *)
np_array(array) == [rows |-> array, alias |-> FALSE]

(* a[:, 1] = col *)
SetColumn1(rows, col) == [i \in 1..Len(rows) |-> <<rows[i][1], col[i]>>]

(* np.array(interval): a 1-D array *)
IntervalArray(interval) == [i \in 1..Len(interval) |-> <<interval[i]>>]

(* dataset.attrs.create(name, data): the attribute is made, or made anew *)
attrs_create(attrs, name, data) ==
    [n \in DOMAIN attrs \cup {name} |-> IF n = name THEN data ELSE attrs[n]]

(* lines 161-175.  The result: the exception raised, the array of the    *)
(* Dataset and the attributes of the object after the call.              *)
baseline(kind, array, attrs, interval, name, prefix, suffix) ==
    LET N == BaselineName(name, prefix, suffix)
        read == np_array(array)
        region == IF interval # <<>>
                  THEN array_region("analysis", [ndim |-> 2, rows |-> read.rows],
                                    <<interval>>, FALSE, 0)
                  ELSE [exc |-> "None", rows |-> read.rows]
        fit == peakutils_baseline(Col(region.rows, 1))
        data == SetColumn1(region.rows,
                    [i \in 1..Len(region.rows) |-> region.rows[i][2] - fit.value[i]])
        base == SetColumn1(data, fit.value)
        (* a slice of an array is a view of it: line 170 writes through *)
        seen == IF read.alias /\ interval = <<>> THEN data ELSE array
    IN  IF ~is_dataset(kind) THEN [exc |-> "None", array |-> array, attrs |-> attrs]
        ELSE IF region.exc # "None" THEN [exc |-> region.exc, array |-> array, attrs |-> attrs]
        ELSE IF fit.exc # "None" THEN [exc |-> fit.exc, array |-> array, attrs |-> attrs]
        ELSE [exc |-> "None", array |-> seen,
              attrs |-> attrs_create(
                            attrs_create(attrs_create(attrs, N, base),
                                         N \o Str_Interval, IntervalArray(interval)),
                            N \o Str_Substract, data)]

(* the arguments of the calls under study *)
BlNames == {<<>>, <<"B">>}

BlPrefixes == {<<>>, <<"p">>}

BlSuffixes == {<<>>, <<"s">>}

BlIntervals == {<<>>, <<1, 3>>, <<2, 2>>}

(* the spectra: the two-row N x 2 arrays *)
Spectra == {a.rows : a \in {b \in Arrays2D : Len(b.rows) = 2}}

NoCall == [name |-> <<>>, prefix |-> <<>>, suffix |-> <<>>, interval |-> <<>>]

NoAttributes == [n \in {} |-> <<>>]

InitBaseline ==
    /\ InitTraversal(IdleConfig)
    /\ cn = CnIdle
    /\ rg = RgIdle
    /\ hu = HuIdle
    /\ bd = BdIdle
    /\ sf = SfIdle
    /\ fb = FbIdle
    /\ inst = InstIdle
    /\ \E k \in {"Dataset", "Group", "other"}, a \in Spectra :
          /\ k # "Dataset" => a = <<<<1, 3>>, <<1, 3>>>>
          /\ bl = [pc |-> "idle", kind |-> k, array |-> a, attrs |-> NoAttributes,
                   calls |-> 0, exc |-> "None", args |-> NoCall,
                   before |-> [array |-> a, attrs |-> NoAttributes],
                   changed |-> FALSE]

(* baseline(dataset, interval, name, suffix, prefix) *)
Call_baseline ==
    /\ bl.pc # "none" /\ bl.calls < MaxCalls
    /\ \E name \in BlNames, prefix \in BlPrefixes, suffix \in BlSuffixes,
          interval \in BlIntervals :
          LET r == baseline(bl.kind, bl.array, bl.attrs, interval, name, prefix, suffix)
          IN  bl' = [bl EXCEPT
                       !.pc = "called", !.calls = bl.calls + 1,
                       !.exc = r.exc, !.array = r.array, !.attrs = r.attrs,
                       !.args = [name |-> name, prefix |-> prefix, suffix |-> suffix,
                                 interval |-> interval],
                       !.before = [array |-> bl.array, attrs |-> bl.attrs],
                       !.changed = FALSE]
    /\ UNCHANGED <<travVars, cn, rg, hu, bd, sf, fb, inst>>

(* the caller writes another spectrum into the Dataset: dataset[...] = new *)
Change_spectrum ==
    /\ bl.pc = "called" /\ bl.kind = "Dataset" /\ ~bl.changed
    /\ bl' = [bl EXCEPT !.changed = TRUE,
                        !.array = [i \in 1..Len(bl.array) |->
                                      <<bl.array[i][1], bl.array[i][2] + 1>>]]
    /\ UNCHANGED <<travVars, cn, rg, hu, bd, sf, fb, inst>>

NextBaseline ==
    \/ Call_baseline
    \/ Change_spectrum

SpecBaseline == InitBaseline /\ [][NextBaseline]_vars
-----------------------------------------------------------------------------
(* analysis.py and methods.py: fit_baseline                                 *)

(* linear_model(x, m, b) on an array x *)
linear_model(x, parameters) == [k \in 1..Len(x) |-> x[k] * parameters[1] + parameters[2]]

(* y - z on 1-D arrays: entry by entry, an array of one entry stretched to *)
(* the length of the other, a ValueError for any other two lengths         *)
np_subtract(y, z) ==
    IF Len(y) = Len(z)
    THEN [exc |-> "None", value |-> [k \in 1..Len(y) |-> y[k] - z[k]]]
    ELSE IF Len(z) = 1
    THEN [exc |-> "None", value |-> [k \in 1..Len(y) |-> y[k] - z[1]]]
    ELSE IF Len(y) = 1
    THEN [exc |-> "None", value |-> [k \in 1..Len(z) |-> y[1] - z[k]]]
    ELSE [exc |-> "ValueError", value |-> <<>>]

(* lines 385-397 (methods.py 118-130).  least_squares is handed __res and  *)
(* evaluates it at the parameters given: res is that residual, a stand-in  *)
(* for every evaluation the solver makes.                                  *)
fit_baseline(version, spectra, baseline_, intervals, index, dim, parameters) ==
    LET s == array_region(version, [ndim |-> 2, rows |-> spectra], intervals, index, dim)
        b == array_region(version, [ndim |-> 2, rows |-> baseline_], intervals, index, dim)
        res == np_subtract(Col(s.rows, 1), linear_model(Col(b.rows, 1), parameters))
        raised(exc) == [exc |-> exc, spectra |-> <<>>, baseline |-> <<>>, res |-> <<>>]
    IN  IF s.exc # "None" THEN raised(s.exc)
        ELSE IF b.exc # "None" THEN raised(b.exc)
        ELSE [exc |-> res.exc, spectra |-> s.rows, baseline |-> b.rows, res |-> res.value]

(* the abscissa and ordinate columns of the arrays under study *)
FitXs == {<<1, 2, 3>>, <<3, 2, 1>>}

FitYs == {<<1, 2, 3>>, <<3, 2, 1>>, <<2, 2, 2>>, <<3, 3, 1>>}

FitParameters == {<<1, 0>>, <<2, 1>>}

InitFit ==
    /\ InitTraversal(IdleConfig)
    /\ cn = CnIdle
    /\ rg = RgIdle
    /\ hu = HuIdle
    /\ bd = BdIdle
    /\ sf = SfIdle
    /\ bl = BlIdle
    /\ inst = InstIdle
    /\ \E xs \in FitXs, xb \in FitXs, ys \in FitYs, yb \in FitYs,
          l \in IntervalLists, v \in {"analysis", "methods"},
          x \in BOOLEAN, d \in {0, 1}, p \in FitParameters :
          \* dim is read in value mode only
          /\ x => d = 0
          /\ fb = [pc |-> "call", version |-> v,
                   spectra |-> np_stack(xs, ys), baseline |-> np_stack(xb, yb),
                   intervals |-> l, index |-> x, dim |-> d, parameters |-> p,
                   exc |-> "None", s_region |-> <<>>, b_region |-> <<>>, res |-> <<>>]

(* fit_baseline(spectra, baseline, *intervals, parameters, index, dim) *)
Call_fit_baseline ==
    /\ fb.pc = "call"
    /\ LET r == fit_baseline(fb.version, fb.spectra, fb.baseline, fb.intervals,
                             fb.index, fb.dim, fb.parameters)
       IN  fb' = [fb EXCEPT !.pc = "done", !.exc = r.exc, !.s_region = r.spectra,
                            !.b_region = r.baseline, !.res = r.res]
    /\ UNCHANGED <<travVars, cn, rg, hu, bd, sf, bl, inst>>

NextFit == Call_fit_baseline

SpecFit == InitFit /\ [][NextFit]_vars
-----------------------------------------------------------------------------
(* h5utils.py: class h5Utils, the settings an instance stores and the       *)
(* operations that read and write them                                      *)
(*                                                                          *)
(* The instance is made over the path of a store that holds the fixture.    *)
(* An argument left out is "None" (<<>> for deep, an int <<n>> when given). *)
(* select_items and apply_keys are generators: an operation stands for the  *)
(* call and a loop that takes every item.                                   *)

ValidModes == {"r", "r+", "w", "w-", "x", "a"}

(* faulty variant: the setter stores whatever it is handed *)
mode_setter_Unchecked(self, mode) == [exc |-> "None", self |-> [self EXCEPT !.mode = mode]]

(* lines 446-451: the setter of mode *)
mode_setter(self, mode) ==
    IF mode \in ValidModes
    THEN [exc |-> "None", self |-> [self EXCEPT !.mode = mode]]
    ELSE [exc |-> "NameError", self |-> self]

(* x or y, for x a str or None *)
StrOr(x, y) == IF x \in {"None", ""} THEN y ELSE x

(* x or y, for x an int or None *)
IntOr(x, y) == IF x = <<>> \/ x = <<0>> THEN y ELSE x[1]

RECURSIVE yield_items(_, _, _), yield_children(_, _, _)
(* lines 187-204 run to exhaustion: the nodes yielded, in order *)
yield_items(c, node, deep) ==
    (IF Matches(c, node) THEN <<node>> ELSE <<>>)
    \o (IF Descends(deep)
        THEN yield_children(c, items(c.tree, node), DeepAfterGuard(deep))
        ELSE <<>>)

(* lines 194-204: the loop over the children *)
yield_children(c, children, deep) ==
    IF children = <<>> THEN <<>>
    ELSE LET value == Head(children)
         IN  (IF isinstance(c.tree[value], "Group") THEN yield_items(c, value, deep)
              ELSE IF isinstance(c.tree[value], "Dataset") /\ Matches(c, value)
              THEN <<value>>
              ELSE <<>>)
             \o yield_children(c, Tail(children), deep)

NoArgs ==
    [mode |-> "None", name_criteria |-> "None", object_criteria |-> "None",
     deep |-> <<>>, func |-> "None"]

(* no call of yield_items made *)
NoTraversal ==
    [mode |-> "None", name_criteria |-> "None", object_criteria |-> "None",
     deep |-> 0, func |-> "None"]

NoInstance ==
    [mode |-> "None", name_criteria |-> "None", object_criteria |-> "None",
     deep |-> 0, func |-> "None", keys |-> <<>>]

(* lines 413-422: __init__ *)
h5Utils(args) ==
    LET m == mode_setter(NoInstance, args.mode)
    IN  IF m.exc # "None" THEN [exc |-> m.exc, self |-> NoInstance]
        ELSE [exc |-> "None",
              self |-> [mode |-> args.mode,
                        name_criteria |-> Or(args.name_criteria, "_default_criteria"),
                        object_criteria |-> Or(args.object_criteria, "_default_criteria"),
                        deep |-> args.deep[1],
                        func |-> Or(args.func, "_default_func"),
                        keys |-> <<>>]]

(* lines 464-470 *)
set_default(self) ==
    LET m == mode_setter(self, "r")
    IN  [exc |-> m.exc,
         self |-> [m.self EXCEPT !.name_criteria = "_default_criteria",
                                 !.object_criteria = "_default_criteria",
                                 !.deep = DefaultDeep,
                                 !.func = "_default_func"]]

(* lines 472-481, keys and kwargs left out by the caller: keys = () *)
set_kwargs(self, args) ==
    LET m == mode_setter(self, StrOr(args.mode, self.mode))
    IN  IF m.exc # "None" THEN m
        ELSE [exc |-> "None",
              self |-> [m.self EXCEPT
                          !.name_criteria = Or(args.name_criteria, self.name_criteria),
                          !.object_criteria = Or(args.object_criteria, self.object_criteria),
                          !.deep = IntOr(args.deep, self.deep),
                          !.func = Or(args.func, self.func),
                          !.keys = self.keys]]

(* lines 483-485: the mode stored; the context is entered by the caller *)
access_h5(self, mode) == mode_setter(self, StrOr(mode, self.mode))

(* lines 487-503: the arguments yield_items is called with *)
select_items(self, args) ==
    [mode |-> StrOr(args.mode, self.mode),
     name_criteria |-> Or(args.name_criteria, self.name_criteria),
     object_criteria |-> Or(args.object_criteria, self.object_criteria),
     deep |-> IntOr(args.deep, self.deep),
     func |-> Or(args.func, self.func)]

(* the generator yield_items(path, ...) run to its end: h5py.File raises    *)
(* ValueError for a mode it does not know; func is called with the node as  *)
(* its one argument, a TypeError for a sort function func(h5_obj, key)      *)
Traversal(call) ==
    LET nodes == yield_items([tree |-> Fixture, name_criteria |-> call.name_criteria,
                              object_criteria |-> call.object_criteria],
                             Root, call.deep)
    IN  IF call.mode \notin ValidModes THEN [exc |-> "ValueError", yielded |-> <<>>]
        ELSE IF call.func \in SortFuncs /\ nodes # <<>>
        THEN [exc |-> "TypeError", yielded |-> <<>>]
        ELSE [exc |-> "None", yielded |-> nodes]

(* lines 505-532 *)
mk_keys(self, args) ==
    LET k == set_kwargs(self, args)
        call == select_items(k.self, [NoArgs EXCEPT !.func = "_default_criteria"])
        t == Traversal(call)
        keys == [i \in 1..Len(t.yielded) |-> NameOf(t.yielded[i])]
        a == access_h5(k.self, "None")
    IN  IF k.exc # "None"
        THEN [exc |-> k.exc, self |-> k.self, call |-> NoTraversal, yielded |-> <<>>]
        ELSE IF t.exc # "None"
        THEN [exc |-> t.exc, self |-> k.self, call |-> call, yielded |-> <<>>]
        ELSE [exc |-> "None",
              self |-> IF k.self.func # "_default_func"
                       THEN [a.self EXCEPT !.keys = sorted(keys, k.self.func)]
                       ELSE [k.self EXCEPT !.keys = keys],
              call |-> call, yielded |-> t.yielded]

(* lines 534-545, keys and func left out by the caller *)
apply_keys(self, mode) ==
    LET a == access_h5(self, StrOr(mode, self.mode))
    IN  IF a.exc # "None" THEN [exc |-> a.exc, self |-> a.self, yielded |-> <<>>]
        ELSE IF self.func \in SortFuncs /\ self.keys # <<>>
        THEN [exc |-> "TypeError", self |-> a.self, yielded |-> <<>>]
        ELSE [exc |-> "None", self |-> a.self,
              yielded |-> [i \in 1..Len(self.keys) |-> NodeNamed(Fixture, self.keys[i])]]

(* the arguments of the calls under study *)
ModeArgs == {"None", "", "a", "zz"}

CriteriaArgs == {"None", "ends_a"}

ObjectArgs == {"None", "is_dataset"}

DeepArgs == {<<>>, <<0>>, <<1>>}

FuncArgs == {"None", "len_key"}

Given(args) ==
    Cardinality({f \in DOMAIN args : args[f] # NoArgs[f]})

(* calls with no argument, with one, and with all five *)
CallArgs ==
    {args \in [mode : ModeArgs, name_criteria : CriteriaArgs,
               object_criteria : ObjectArgs, deep : DeepArgs, func : FuncArgs] :
        Given(args) \in {0, 1, 5}}

Done(op, args, exc, self, call, yielded) ==
    [pc |-> IF op = "__init__" /\ exc # "None" THEN "failed" ELSE "ready",
     self |-> self,
     last |-> [op |-> op, args |-> args, exc |-> exc, call |-> call, yielded |-> yielded]]

(* h5Utils(path, mode=..., deep=..., name_criteria=..., object_criteria=..., func=...) *)
InitUtils ==
    /\ InitTraversal(IdleConfig)
    /\ cn = CnIdle
    /\ rg = RgIdle
    /\ hu = HuIdle
    /\ bd = BdIdle
    /\ sf = SfIdle
    /\ bl = BlIdle
    /\ fb = FbIdle
    /\ \E args \in [mode : {"r", "a", "", "zz"}, name_criteria : CriteriaArgs,
                    object_criteria : ObjectArgs, deep : {<<0>>, <<DefaultDeep>>},
                    func : FuncArgs] :
          LET r == h5Utils(args)
          IN  inst = Done("__init__", args, r.exc, r.self, NoTraversal, <<>>)

Call_set_kwargs ==
    /\ inst.pc = "ready"
    /\ \E args \in CallArgs :
          LET r == set_kwargs(inst.self, args)
          IN  inst' = Done("set_kwargs", args, r.exc, r.self, NoTraversal, <<>>)
    /\ UNCHANGED <<travVars, cn, rg, hu, bd, sf, bl, fb>>

Call_set_default ==
    /\ inst.pc = "ready"
    /\ LET r == set_default(inst.self)
       IN  inst' = Done("set_default", NoArgs, r.exc, r.self, NoTraversal, <<>>)
    /\ UNCHANGED <<travVars, cn, rg, hu, bd, sf, bl, fb>>

Call_access_h5 ==
    /\ inst.pc = "ready"
    /\ \E mode \in ModeArgs :
          LET r == access_h5(inst.self, mode)
          IN  inst' = Done("access_h5", [NoArgs EXCEPT !.mode = mode], r.exc, r.self,
                           NoTraversal, <<>>)
    /\ UNCHANGED <<travVars, cn, rg, hu, bd, sf, bl, fb>>

Call_select_items ==
    /\ inst.pc = "ready"
    /\ \E args \in CallArgs :
          LET call == select_items(inst.self, args)
              t == Traversal(call)
          IN  inst' = Done("select_items", args, t.exc, inst.self, call, t.yielded)
    /\ UNCHANGED <<travVars, cn, rg, hu, bd, sf, bl, fb>>

Call_mk_keys ==
    /\ inst.pc = "ready"
    /\ \E args \in CallArgs :
          LET r == mk_keys(inst.self, args)
          IN  inst' = Done("mk_keys", args, r.exc, r.self, r.call, r.yielded)
    /\ UNCHANGED <<travVars, cn, rg, hu, bd, sf, bl, fb>>

Call_apply_keys ==
    /\ inst.pc = "ready"
    /\ \E mode \in ModeArgs :
          LET r == apply_keys(inst.self, mode)
          IN  inst' = Done("apply_keys", [NoArgs EXCEPT !.mode = mode], r.exc, r.self,
                           NoTraversal, r.yielded)
    /\ UNCHANGED <<travVars, cn, rg, hu, bd, sf, bl, fb>>

NextUtils ==
    \/ Call_set_kwargs
    \/ Call_set_default
    \/ Call_access_h5
    \/ Call_select_items
    \/ Call_mk_keys
    \/ Call_apply_keys

SpecUtils == InitUtils /\ [][NextUtils]_vars

(* the consumer stops pulling and the runtime reclaims the abandoned generator, *)
(* closing it: CPython does so when the last reference to it goes away          *)
LiveSpec == Spec /\ WF_vars(Finalize)

-----------------------------------------------------------------------------
(* What a run has produced so far *)

IsYield(e) == e.ev = "yield"

IsFunc(e) == e.ev = "func"

IsVisit(e) == e.ev \in {"func", "yield"}

NodesOf(events) == [i \in 1..Len(events) |-> events[i].node]

(* the nodes handed to the consumer, in order *)
Emitted == NodesOf(SelectSeq(log, IsYield))

(* the nodes func was called on, in order *)
FuncCalls == NodesOf(SelectSeq(log, IsFunc))

EmittedSet == {Emitted[i] : i \in 1..Len(Emitted)}

Count(seq, x) == Cardinality({i \in 1..Len(seq) : seq[i] = x})

(* the nodes of the store at or below the starting node *)
Subtree == {n \in DOMAIN cfg.tree : LevelsBelow(n, cfg.start) >= 0}

(* the nodes at most k levels below the starting node *)
Within(k) == {n \in Subtree : LevelsBelow(n, cfg.start) <= k}

(* both criteria hold of a node (an absent criterion holds of every node) *)
Satisfies(n) ==
    /\ object_criteria(cfg.object_criteria, cfg.tree[n])
    /\ name_criteria(cfg.name_criteria, NameOf(n))

Magnitude(n) == IF n < 0 THEN 0 - n ELSE n

IsProperPrefix(a, b) == Len(a) < Len(b) /\ SubSeq(b, 1, Len(a)) = a

Rank(c) == CHOOSE i \in 1..Len(NameOrder) : NameOrder[i] = c

(* the block of a direct `with` has been left *)
WithLeft == wpc.pc \in {"done", "raised", "swallowed"} /\ wpc.h5_object # "nothing"

(* the generator has finished, one way or another *)
GenOver == gen \in {"done", "closed", "raised"}

-----------------------------------------------------------------------------
(* C1: a context entered with a path string has closed the file it opened   *)
(* once its block is left, whether the block completed, raised or (in the   *)
(* generator) was left by GeneratorExit; and the exception is not           *)
(* suppressed: it reaches the caller, and a generator being closed does not *)
(* run on.                                                                  *)
C1_StringContextClosesFile ==
    cfg.src = "str" /\ cfg.client # "none" =>
        /\ WithLeft => libOpen = 0
        /\ GenOver => libOpen = 0
        /\ wpc.pc = "body" => libOpen = 1
        /\ wpc.pc # "swallowed"
        /\ consumer = "stopped" => gen # "running" /\ error = "none"

C1_Witness ==
    /\ cfg.client = "with"
    /\ cfg.src = "str"
    /\ wpc.pc = "raised"
    /\ error = "BodyError"
    /\ libOpen = 0
    /\ log = <<[ev |-> "open", node |-> Root], [ev |-> "close", node |-> Root]>>

(* C2: a context entered with an open File or Group hands the block that   *)
(* same handle and never closes it: the caller's handle is open in every   *)
(* state, also after the block was left normally or by an exception, and   *)
(* the context opens nothing of its own.                                   *)
C2_GivenHandleStaysOpen ==
    cfg.src \in {"File", "Group"} /\ cfg.client # "none" =>
        /\ callerOpen
        /\ libOpen = 0
        /\ wpc.pc \in {"body", "done", "raised", "swallowed"} =>
               wpc.h5_object = "file_name_or_object"
        /\ \A i \in 1..Len(stack) :
               stack[i].pc # "with" => stack[i].h5_object = "file_name_or_object"

C2_Witness ==
    /\ cfg.client = "with"
    /\ cfg.src = "Group"
    /\ wpc.pc = "raised"
    /\ error = "BodyError"
    /\ wpc.h5_object = "file_name_or_object"
    /\ callerOpen

(* C3: on the fixture with no criteria and deep=10 the traversal emits      *)
(* "/", "/g1", "/g1/a", "/g1/b", "/g2" in that order; and in every run an   *)
(* emitted node comes before every emitted node of its subtree, and emitted *)
(* siblings come in the store's child iteration order.                      *)
FixtureOrder == << Root, <<"a">>, <<"a", "a">>, <<"a", "b">>, <<"b">> >>

IsFixtureRun ==
    /\ cfg.client = "traverse"
    /\ cfg.tree = Fixture
    /\ cfg.start = Root
    /\ cfg.src \in {"str", "File"}
    /\ cfg.deep = DefaultDeep
    /\ cfg.name_criteria = "None"
    /\ cfg.object_criteria = "None"

C3_PreOrder ==
    /\ IsFixtureRun /\ gen = "done" => Emitted = FixtureOrder
    /\ \A i, j \in 1..Len(Emitted) :
          /\ IsProperPrefix(Emitted[i], Emitted[j]) => i < j
          /\ ( /\ Emitted[i] # Root
               /\ Emitted[j] # Root
               /\ Parent(Emitted[i]) = Parent(Emitted[j])
               /\ Rank(Emitted[i][Len(Emitted[i])]) < Rank(Emitted[j][Len(Emitted[j])]) )
             => i < j

C3_Witness == IsFixtureRun /\ cfg.src = "str" /\ gen = "done" /\ Emitted = FixtureOrder

(* C4 as stated: once the traversal is exhausted, a node of the store has   *)
(* been emitted if and only if both criteria hold of it.                    *)
C4_Original ==
    cfg.client = "traverse" /\ gen = "done" =>
        \A n \in DOMAIN cfg.tree : n \in EmittedSet <=> Satisfies(n)

(* C4, amended: once the traversal is exhausted, a node at most |deep|      *)
(* levels below the starting node has been emitted if and only if both      *)
(* criteria hold of it; and in every state func has been called exactly     *)
(* once on each emitted node, right before it was emitted, and on no other  *)
(* node.                                                                    *)
C4_EmitsIffCriteriaWithinDepth ==
    cfg.client = "traverse" =>
        /\ gen = "done" =>
              \A n \in Within(Magnitude(cfg.deep)) : n \in EmittedSet <=> Satisfies(n)
        /\ FuncCalls = Emitted
        /\ \A n \in DOMAIN cfg.tree : Count(FuncCalls, n) <= 1
        /\ \A k \in 1..Len(log) :
              log[k].ev = "yield" =>
                  k > 1 /\ log[k - 1] = [ev |-> "func", node |-> log[k].node]

C4_Witness ==
    /\ cfg.client = "traverse"
    /\ gen = "done"
    /\ cfg.object_criteria = "is_dataset"
    /\ cfg.name_criteria = "ends_a"
    /\ Len(Emitted) = 1
    /\ \E n \in Within(Magnitude(cfg.deep)) : ~Satisfies(n)
    /\ \E n \in Subtree \ Within(Magnitude(cfg.deep)) : Satisfies(n)

(* C5: with deep=0 nothing but the starting node is ever emitted, and once  *)
(* the traversal is exhausted the starting node has been emitted exactly    *)
(* when the criteria hold of it.                                            *)
C5_DeepZeroOnlyStart ==
    cfg.client = "traverse" /\ cfg.deep = 0 =>
        /\ EmittedSet \subseteq {cfg.start}
        /\ gen = "done" =>
              Emitted = IF Satisfies(cfg.start) THEN <<cfg.start>> ELSE <<>>

C5_Witness ==
    /\ cfg.client = "traverse"
    /\ cfg.deep = 0
    /\ gen = "done"
    /\ Emitted = <<cfg.start>>
    /\ \E n \in Subtree \ {cfg.start} : Satisfies(n)

(* the matching nodes at most `budget` levels below a node, in pre-order *)
RECURSIVE ExpectedFrom(_, _), ExpectedOver(_, _)
ExpectedFrom(node, budget) ==
    (IF Satisfies(node) THEN <<node>> ELSE <<>>)
    \o (IF budget > 0 THEN ExpectedOver(items(cfg.tree, node), budget - 1) ELSE <<>>)

ExpectedOver(children, budget) ==
    IF children = <<>> THEN <<>>
    ELSE ExpectedFrom(Head(children), budget) \o ExpectedOver(Tail(children), budget)

C7_NegativeDeepUnlimited ==
    cfg.client = "traverse" /\ cfg.deep < 0 /\ gen = "done" =>
        \A n \in Subtree : Satisfies(n) => n \in EmittedSet

C9_OtherTypeRaisesTypeError ==
    cfg.src = "other" /\ cfg.client # "none" =>
        /\ libOpen = 0
        /\ log = <<>>
        /\ wpc.pc \in {"none", "start", "raised"}
        /\ gen \in {"none", "created", "running", "raised", "closed"}
        /\ gen = "running" => Len(stack) = 1 /\ stack[1].pc = "with"
        /\ wpc.pc = "raised" \/ gen = "raised" => error = "TypeError"

C9_Witness ==
    /\ cfg.client = "traverse"
    /\ cfg.src = "other"
    /\ Cardinality(DOMAIN cfg.tree) > 1
    /\ gen = "raised"
    /\ error = "TypeError"
    /\ log = <<>>

(* C10: criteria_name is the conjunction of its six clauses, a clause being *)
(* true for an empty list and otherwise the substring / prefix / suffix     *)
(* test (or its negation) taken over ALL elements when operator is 'and'    *)
(* and over ANY element otherwise; with all six lists empty it is true; and *)
(* with only starts=[p] and operator 'and' it is true iff path starts with  *)
(* p.                                                                       *)
ClauseHolds(list, operator, Test(_)) ==
    \/ list = <<>>
    \/ list # <<>> /\ operator = "and" /\ \A i \in 1..Len(list) : Test(list[i])
    \/ list # <<>> /\ operator # "and" /\ \E i \in 1..Len(list) : Test(list[i])

C10_SixClauses ==
    cn.called /\ cn.args # <<>> =>
        LET In(x) == Contains(cn.path, x)
            NotIn(x) == ~Contains(cn.path, x)
            St(x) == StartsWith(cn.path, x)
            NotSt(x) == ~StartsWith(cn.path, x)
            En(x) == EndsWith(cn.path, x)
            NotEn(x) == ~EndsWith(cn.path, x)
            a == cn.args
            o == cn.operator
        IN  /\ cn.result <=>
                  /\ ClauseHolds(a["in_path"], o, In)
                  /\ ClauseHolds(a["not_in_path"], o, NotIn)
                  /\ ClauseHolds(a["starts"], o, St)
                  /\ ClauseHolds(a["not_starts"], o, NotSt)
                  /\ ClauseHolds(a["ends"], o, En)
                  /\ ClauseHolds(a["not_ends"], o, NotEn)
            /\ (\A c \in Clauses : a[c] = <<>>) => cn.result
            /\ ( /\ o = "and"
                 /\ Len(a["starts"]) = 1
                 /\ \A c \in Clauses \ {"starts"} : a[c] = <<>> )
               => (cn.result <=> StartsWith(cn.path, a["starts"][1]))

C10_Witness ==
    /\ cn.called
    /\ cn.args # <<>>
    /\ cn.operator = "xor"
    /\ cn.path = <<"/", "a", "a">>
    /\ cn.args["ends"] = << <<"/">>, <<"a">> >>
    /\ cn.result

-----------------------------------------------------------------------------
(* What find_near and array_region are expected to compute, stated          *)
(* independently of the way the code computes it                            *)

(* the lowest index whose entry is at least as near to t as every entry *)
Nearest(col, t) ==
    CHOOSE k \in 0..(Len(col) - 1) :
        /\ \A i \in 1..Len(col) : Magnitude(col[k + 1] - t) <= Magnitude(col[i] - t)
        /\ \A i \in 1..k : Magnitude(col[i] - t) > Magnitude(col[k + 1] - t)

(* the column `dim` of an N x 2 array *)
ColumnOf(a, dim) == [k \in 1..Len(a.rows) |-> a.rows[k][dim + 1]]

(* the rows of indices first, first-1, ..., last+1 *)
Decreasing(rows, first, last) ==
    [k \in 1..(first - last) |-> rows[first + 2 - k]]

(* an array_region call has returned or raised *)
RegionDone == rg.fn = "array_region" /\ rg.pc = "done"

(* C11: for a non-empty array a and a target t, find_near(a, t) raises      *)
(* nothing and returns an index k such that |a[k] - t| <= |a[i] - t| for    *)
(* every index i, the lowest of the indices that attain this minimum.       *)
C11_FindNearFirstMinimum ==
    (rg.fn = "find_near" /\ rg.called /\ Len(rg.a.rows) > 0) =>
        LET a == Entries(rg.a)
            k == rg.value
        IN  /\ rg.exc = "None"
            /\ k \in 0..(Len(a) - 1)
            /\ \A i \in 1..Len(a) :
                   Magnitude(a[k + 1] - rg.Near) <= Magnitude(a[i] - rg.Near)
            /\ \A i \in 1..k :
                   Magnitude(a[i] - rg.Near) > Magnitude(a[k + 1] - rg.Near)

(* a tie that is not at the start of the array: find_near([3, 1, 1], 1) *)
C11_Witness ==
    /\ rg.fn = "find_near" /\ rg.called /\ rg.exc = "None"
    /\ rg.value > 0
    /\ \E i \in (rg.value + 2)..Len(rg.a.rows) :
           Magnitude(rg.a.rows[i][1] - rg.Near)
               = Magnitude(rg.a.rows[rg.value + 1][1] - rg.Near)

(* C12: array_region with index=True and one interval [i, j],               *)
(* 0 <= i <= j <= len(a), raises nothing and returns the rows a[i:j], for   *)
(* 1-D and for N x 2 arrays.                                                *)
C12_IndexModeSlice ==
    (/\ RegionDone /\ rg.index /\ Len(rg.intervals) = 1
     /\ rg.intervals[1][1] <= rg.intervals[1][2]
     /\ rg.intervals[1][2] <= Len(rg.a.rows)) =>
        /\ rg.exc = "None"
        /\ rg.region = Bound(SubSeq(rg.a.rows, rg.intervals[1][1] + 1, rg.intervals[1][2]))

(* C13: array_region of analysis.py, given one interval whose begin index   *)
(* is greater than its end index, raises nothing and returns the rows       *)
(* begin, begin-1, ..., end+1 in that order: a[begin:end:-1]; a result that *)
(* is not empty when begin > end+1.                                         *)
C13_ReversedInterval ==
    (/\ RegionDone /\ rg.version = "analysis" /\ ~rg.index
     /\ rg.a.ndim = 2 /\ Len(rg.a.rows) > 0 /\ Len(rg.intervals) = 1) =>
        LET col == ColumnOf(rg.a, rg.dim)
            begin == Nearest(col, rg.intervals[1][1])
            end == Nearest(col, rg.intervals[1][2])
        IN  begin > end =>
                /\ rg.exc = "None"
                /\ rg.region = Bound(Decreasing(rg.a.rows, begin, end))
                /\ begin > end + 1 => rg.region.rows # <<>>

(* C14: array_region given no interval raises nothing and returns the array *)
(* it was given: the same rows in the same order, whatever index and dim.   *)
C14_NoIntervalIdentity ==
    (RegionDone /\ Len(rg.intervals) = 0) =>
        /\ rg.exc = "None"
        /\ rg.region = Bound(rg.a.rows)

RECURSIVE RegionsInOrder(_, _, _, _)
(* the region of each interval, one after the other *)
RegionsInOrder(version, a, dim, intervals) ==
    IF intervals = <<>> THEN <<>>
    ELSE LET col == ColumnOf(a, dim)
             begin == Nearest(col, Head(intervals)[1])
             end == Nearest(col, Head(intervals)[2])
         IN  RegionOf(version, a.rows, begin, end)
                 \o RegionsInOrder(version, a, dim, Tail(intervals))

(* C15: in value mode, on a non-empty N x 2 array and at least one interval, *)
(* array_region raises nothing and returns the regions of its intervals     *)
(* joined in the order the intervals were given, the region of [v1, v2]     *)
(* being the one between the row whose column `dim` is nearest v1 and the   *)
(* row nearest v2 (the lowest such row); rows that several intervals cover  *)
(* are returned once per interval.                                          *)
C15_ValueModeConcatenation ==
    (/\ RegionDone /\ ~rg.index /\ rg.a.ndim = 2
     /\ Len(rg.a.rows) > 0 /\ Len(rg.intervals) > 0) =>
        /\ rg.exc = "None"
        /\ rg.region = Bound(RegionsInOrder(rg.version, rg.a, rg.dim, rg.intervals))

(* two intervals with different regions that share a row *)
C15_Witness ==
    /\ RegionDone /\ ~rg.index /\ rg.exc = "None" /\ rg.version = "analysis"
    /\ rg.a.ndim = 2 /\ Len(rg.intervals) = 2
    /\ LET p1 == RegionsInOrder(rg.version, rg.a, rg.dim, <<rg.intervals[1]>>)
           p2 == RegionsInOrder(rg.version, rg.a, rg.dim, <<rg.intervals[2]>>)
       IN  /\ p1 # <<>> /\ p2 # <<>> /\ p1 \o p2 # p2 \o p1
           /\ \E i \in 1..Len(p1), j \in 1..Len(p2) : p1[i] = p2[j]
           /\ rg.region.rows = p1 \o p2
           /\ \E i, j \in 1..Len(rg.region.rows) : i # j /\ rg.region.rows[i] = rg.region.rows[j]

-----------------------------------------------------------------------------
(* the names of a sequence of nodes *)
NamesOf(nodes) == [i \in 1..Len(nodes) |-> NameOf(nodes[i])]

(* where an element stands in a sequence without repetitions *)
PositionIn(seq, x) == CHOOSE i \in 1..Len(seq) : seq[i] = x

IsSortKey(e) == e.ev = "sortkey"

(* the keys the sort function was called on, in order *)
SortKeyCalls == NodesOf(SelectSeq(log, IsSortKey))

KeysDone == cfg.client = "mk_keys" /\ hu.pc = "done"

(* C16: mk_keys returns the names of the nodes the traversal has emitted:   *)
(* in the order they were emitted when the instance has no sort function;   *)
(* with a sort function, the same names, each as often, in nondecreasing    *)
(* order of func(handle, name), names of equal value in the order they were *)
(* emitted.  The sort function is called on the collected names only, once  *)
(* each; the function the traversal calls on a node is never the sort       *)
(* function.                                                                *)
C16_KeysAreEmittedPaths ==
    /\ (cfg.client = "mk_keys" /\ hu.pc # "call") => hu.yield_func = "_default_criteria"
    /\ (cfg.client = "mk_keys" /\ hu.pc # "done") => SortKeyCalls = <<>>
    /\ KeysDone =>
         LET paths == NamesOf(Emitted)
             keys == hu.keys
         IN  /\ error = "none"
             /\ Len(keys) = Len(paths)
             /\ \A i \in 1..Len(paths) : Count(keys, paths[i]) = Count(paths, paths[i])
             /\ hu.func = "_default_func" => keys = paths /\ SortKeyCalls = <<>>
             /\ hu.func # "_default_func" =>
                  /\ SortKeyCalls = paths
                  /\ \A i, j \in 1..Len(keys) :
                        i < j =>
                          /\ SortValue(hu.func, keys[i]) <= SortValue(hu.func, keys[j])
                          /\ SortValue(hu.func, keys[i]) = SortValue(hu.func, keys[j])
                               => PositionIn(paths, keys[i]) < PositionIn(paths, keys[j])

(* a sort that changes the order and has two names of equal value to keep in order *)
C16_Witness ==
    /\ KeysDone /\ hu.func \in SortFuncs
    /\ hu.keys # NamesOf(Emitted)
    /\ \E i, j \in 1..Len(hu.keys) :
          i < j /\ SortValue(hu.func, hu.keys[i]) = SortValue(hu.func, hu.keys[j])

-----------------------------------------------------------------------------
(* What the builders are expected to write *)

(* the Datasets a builder was given, in key order *)
InputNodes == [k \in 1..Len(bd.keys) |-> NodeNamed(cfg.tree, bd.keys[k])]

InputLeaf(k) == LeafOf(InputNodes[k], bd.shift)

(* the store has a child called `name` right under "/" *)
NameTaken == <<bd.name>> \in DOMAIN cfg.tree

(* the builder has returned, or has raised *)
BuildOver == bd.pc \in {"done", "raised"}

RECURSIVE CommonPrefix(_, _)
CommonPrefix(a, b) ==
    IF a # <<>> /\ b # <<>> /\ Head(a) = Head(b)
    THEN <<Head(a)>> \o CommonPrefix(Tail(a), Tail(b))
    ELSE <<>>

RECURSIVE CommonAncestor(_)
(* the deepest Group that holds every node of a non-empty sequence *)
CommonAncestor(nodes) ==
    IF Len(nodes) = 1 THEN Parent(nodes[1])
    ELSE CommonPrefix(Parent(nodes[1]), CommonAncestor(Tail(nodes)))

(* C17: mk_map over N >= 1 selected Leaves (in key order), each an R x 2    *)
(* array, when the name is free, writes one Dataset [X, Y, Z] of shape      *)
(* (3, R, N): X[r][k] is the xattr value of Leaf k for every k, Y[r][k] is  *)
(* row r of the abscissa column of the first Leaf, and Z[r][k] is row r of  *)
(* the intensity column of Leaf k.                                          *)
C17_MapTensor ==
    (bd.fn = "mk_map" /\ bd.pc = "done" /\ Len(bd.keys) > 0 /\ ~NameTaken) =>
        /\ bd.exc = "None"
        /\ Len(bd.created) = 1
        /\ bd.created[1].name = bd.name
        /\ LET data == bd.created[1].data
               N == Len(bd.keys)
               R == Len(InputLeaf(1).array)
           IN  /\ Len(data) = 3
               /\ \A m \in 1..3 :
                     Len(data[m]) = R /\ \A r \in 1..R : Len(data[m][r]) = N
               /\ \A r \in 1..R, k \in 1..N :
                     /\ data[1][r][k] = InputLeaf(k).xattr
                     /\ data[2][r][k] = InputLeaf(1).array[r][1]
                     /\ data[3][r][k] = InputLeaf(k).array[r][2]

(* a map of two Leaves with different xattr values, in sorted key order *)
C17_Witness ==
    /\ bd.fn = "mk_map" /\ bd.pc = "done" /\ Len(bd.keys) = 2 /\ hu.sorted
    /\ Len(bd.created) = 1
    /\ InputLeaf(1).xattr # InputLeaf(2).xattr
    /\ bd.created[1].data[3][1] = <<InputLeaf(1).array[1][2], InputLeaf(2).array[1][2]>>

(* C18: mk_profile over N >= 1 keys, with no func and the name free, writes *)
(* one N x 2 Dataset whose row k is <<xattr value of Leaf k, intensity of   *)
(* Leaf k in the row whose abscissa is nearest profile_value>> (the lowest  *)
(* such row), rows in key order.                                            *)
C18_ProfileRows ==
    (/\ bd.fn = "mk_profile" /\ BuildOver /\ bd.func = "None"
     /\ Len(bd.keys) > 0 /\ ~NameTaken) =>
        /\ Len(bd.created) = 1
        /\ bd.created[1].name = bd.name
        /\ bd.created[1].data =
              [k \in 1..Len(bd.keys) |->
                  LET a == InputLeaf(k).array
                      col == [r \in 1..Len(a) |-> a[r][1]]
                  IN  <<InputLeaf(k).xattr, a[Nearest(col, bd.profile_value) + 1][2]>>]

(* two keys whose nearest rows differ *)
C18_Witness ==
    /\ bd.fn = "mk_profile" /\ bd.pc = "done" /\ bd.func = "None"
    /\ Len(bd.keys) = 2 /\ Len(bd.created) = 1
    /\ LET a1 == InputLeaf(1).array
           a2 == InputLeaf(2).array
       IN  /\ bd.created[1].data[1][2] = a1[1][2]
           /\ bd.created[1].data[2][2] = a2[2][2]
           /\ a2[1][2] # a2[2][2]

(* C19: when the store has a child called `name` where the builder writes,  *)
(* mk_map and mk_profile raise nothing and create nothing: the store keeps  *)
(* the nodes it had, and no new Dataset takes the place of the child.       *)
C19_NameTakenNothingWritten ==
    (bd.fn # "none" /\ NameTaken) =>
        /\ bd.created = <<>>
        /\ bd.exc = "None"
        /\ bd.pc # "raised"

(* mk_profile given attributes has reached create_dataset and returned *)
C19_Witness ==
    /\ bd.fn = "mk_profile" /\ bd.pc = "done" /\ NameTaken
    /\ Len(bd.keys) > 0 /\ bd.attributes # <<>>
    /\ bd.created = <<>>

(* C20 as stated: the Dataset a builder creates is a child of the nearest   *)
(* common ancestor Group of the Leaves it was given.                        *)
C20_Original ==
    (bd.fn # "none" /\ bd.created # <<>>) =>
        bd.created[1].parent = CommonAncestor(InputNodes)

(* C20, amended: the Dataset a builder creates is a child of the root Group *)
(* "/" of the store, wherever the Leaves it was given live.                 *)
C20_OutputAtRoot ==
    (bd.fn # "none" /\ bd.created # <<>>) =>
        \A i \in 1..Len(bd.created) :
            bd.created[i].parent = Root /\ bd.created[i].name = bd.name

(* Leaves that all live under a Group below the root *)
C20_Witness ==
    /\ bd.fn = "mk_map" /\ bd.pc = "done" /\ bd.created # <<>>
    /\ Len(bd.keys) = 2
    /\ CommonAncestor(InputNodes) # Root
    /\ bd.created[1].parent = Root

-----------------------------------------------------------------------------
(* C24: mk_profile given a non-empty attributes list (at least one key, the *)
(* name free) raises nothing, returns, and the Dataset it has created       *)
(* carries, for the listed attribute, the average of that attribute over    *)
(* the Datasets it was given.                                               *)
C24_ProfileAttributesAveraged ==
    (/\ bd.fn = "mk_profile" /\ BuildOver /\ bd.attributes # <<>>
     /\ Len(bd.keys) > 0 /\ ~NameTaken) =>
        /\ bd.exc = "None"
        /\ bd.pc = "done"
        /\ Len(bd.created) = 1
        /\ bd.created[1].attrs.has
        /\ bd.created[1].attrs.n = Len(bd.keys)
        /\ bd.created[1].attrs.sum = InputLeaf(1).T
              + (IF Len(bd.keys) > 1 THEN InputLeaf(2).T ELSE 0)
              + (IF Len(bd.keys) > 2 THEN InputLeaf(3).T ELSE 0)

-----------------------------------------------------------------------------
(* the characters of a string that are digits once `dot` has been made the *)
(* decimal point                                                           *)
DigitsLeft(s, dot) == {i \in 1..Len(s) : s[i] \in SfDigits \ {dot}}

(* C21: for every string and every dot character string_to_float raises    *)
(* nothing and returns a float, NaN or a number; it returns NaN for the     *)
(* empty string, for a string without a digit, and for a string in which    *)
(* a blank stands between the first digit and a later one with nothing but  *)
(* digits and blanks in between; a number it returns is made of digits of   *)
(* the string.                                                              *)
C21_StringToFloatNeverRaises ==
    sf.pc = "done" =>
        LET s == sf.number_string
            left == DigitsLeft(s, sf.dot)
        IN  /\ sf.exc = "None"
            /\ sf.number.kind \in {"nan", "number"}
            /\ left = {} => sf.number.kind = "nan"
            /\ (\E i, j \in left : \E k \in (i + 1)..(j - 1) :
                    /\ \A m \in left : i <= m
                    /\ s[k] = " "
                    /\ \A m \in i..j : s[m] \in (SfDigits \ {sf.dot}) \cup {" "})
                  => sf.number.kind = "nan"
            /\ sf.number.kind = "number" =>
                  /\ Len(sf.number.whole) > 0
                  /\ Len(sf.number.whole) + Len(sf.number.frac) <= Cardinality(left)

(* float() has failed on a string that has digits: the blank in "1 2" *)
C21_Witness ==
    /\ sf.pc = "done" /\ sf.exc = "None" /\ sf.number.kind = "nan"
    /\ DigitsLeft(sf.number_string, sf.dot) # {}
    /\ Len(sf.number_string) = 3

-----------------------------------------------------------------------------
(* the name a call of baseline is to write under: the given name, or        *)
(* 'Baseline', between the prefix and the suffix                            *)
NameAsked(args) ==
    args.prefix \o (IF args.name # <<>> THEN args.name ELSE Str_Baseline) \o args.suffix

(* C22: a call of baseline on a Dataset without attributes leaves it with   *)
(* exactly the three attributes N, N.Interval and N.Substract, N being the  *)
(* given name (or 'Baseline') with the prefix before it and the suffix      *)
(* after it.                                                                *)
C22_BaselineAttributeNames ==
    (bl.pc = "called" /\ bl.kind = "Dataset" /\ bl.exc = "None"
        /\ bl.before.attrs = NoAttributes) =>
        DOMAIN bl.attrs = {NameAsked(bl.args),
                           NameAsked(bl.args) \o Str_Interval,
                           NameAsked(bl.args) \o Str_Substract}

(* C30: a call of baseline leaves the array of the Dataset as it was and    *)
(* removes no attribute; on an object that is no Dataset it writes nothing  *)
(* and raises nothing; and a step that is no call of baseline, the caller   *)
(* writing another spectrum, leaves every attribute as it was.              *)
C30_BaselineFrame ==
    [][/\ bl'.calls = bl.calls + 1 =>
            /\ bl'.array = bl.array
            /\ DOMAIN bl.attrs \subseteq DOMAIN bl'.attrs
            /\ bl.kind # "Dataset" => (bl'.attrs = bl.attrs /\ bl'.exc = "None")
       /\ bl'.calls = bl.calls => bl'.attrs = bl.attrs]_vars

(* two baselines written under two names, and the spectrum changed since *)
C30_Witness ==
    /\ bl.pc = "called" /\ bl.kind = "Dataset" /\ bl.calls = 2
    /\ bl.changed
    /\ Cardinality(DOMAIN bl.attrs) = 6

-----------------------------------------------------------------------------
(* rows with their place in the array as a third entry *)
Numbered(rows) == [i \in 1..Len(rows) |-> <<rows[i][1], rows[i][2], i>>]

(* the places of the rows a crop of `rows` selects, in the order selected *)
Selected(version, rows, intervals, index, dim) ==
    LET r == array_region(version, [ndim |-> 2, rows |-> Numbered(rows)],
                          intervals, index, dim)
    IN  [exc |-> r.exc, places |-> [k \in 1..Len(r.rows) |-> r.rows[k][3]]]

(* C23: fit_baseline crops spectra and baseline with the same intervals,   *)
(* index flag and dim; when the two abscissa columns are identical and the *)
(* crops return, both crops select the same rows in the same order and the *)
(* residual is spectra.y - model(baseline.y, *parameters) over those rows. *)
C23_FitBaselineAligned ==
    LET s == Selected(fb.version, fb.spectra, fb.intervals, fb.index, fb.dim)
        b == Selected(fb.version, fb.baseline, fb.intervals, fb.index, fb.dim)
    IN  (/\ fb.pc = "done"
         /\ Col(fb.spectra, 0) = Col(fb.baseline, 0)
         /\ s.exc = "None" /\ b.exc = "None") =>
            /\ s.places = b.places
            /\ fb.exc = "None"
            /\ fb.res = [k \in 1..Len(s.places) |->
                            fb.spectra[s.places[k]][2]
                            - (fb.baseline[s.places[k]][2] * fb.parameters[1]
                               + fb.parameters[2])]

-----------------------------------------------------------------------------
-----------------------------------------------------------------------------
IsOpen(e) == e.ev = "open"

IsClose(e) == e.ev = "close"

(* the handles open after the first k events of the run *)
OpenAfter(k) ==
    Len(SelectSeq(SubSeq(log, 1, k), IsOpen)) - Len(SelectSeq(SubSeq(log, 1, k), IsClose))

(* C27: in mk_keys over a path string the traversal opens the file once, in *)
(* the call on the starting node, and the calls on child Groups neither     *)
(* open nor close it; every node is emitted while the file is open; never   *)
(* are two handles open at once; and when mk_keys has returned, with or     *)
(* without a sort function, every handle it opened has been closed.         *)
C27_KeysFileScoped ==
    cfg.client = "mk_keys" /\ cfg.src = "str" =>
        /\ libOpen \in {0, 1}
        /\ \A k \in 1..Len(log) :
              /\ OpenAfter(k) \in {0, 1}
              /\ log[k].ev \in {"open", "close"} => log[k].node = cfg.start
              /\ log[k].ev = "yield" => OpenAfter(k) = 1
        /\ hu.pc = "for" => Len(SelectSeq(log, IsOpen)) <= 1
        /\ hu.pc = "sort" =>
              /\ Len(SelectSeq(log, IsOpen)) = 1
              /\ Len(SelectSeq(log, IsClose)) = 1
              /\ libOpen = 0
        /\ hu.pc = "done" =>
              /\ libOpen = 0
              /\ OpenAfter(Len(log)) = 0
              /\ Len(SelectSeq(log, IsOpen)) = (IF hu.sorted THEN 2 ELSE 1)

(* mk_keys has returned sorted keys of nodes found under a child Group *)
C27_Witness ==
    /\ cfg.client = "mk_keys" /\ cfg.src = "str"
    /\ hu.pc = "done" /\ hu.sorted
    /\ libOpen = 0
    /\ \E i \in 1..Len(Emitted) : LevelsBelow(Emitted[i], cfg.start) = 2

-----------------------------------------------------------------------------
(* C26: select_items(deep=0) and mk_keys(deep=0) call yield_items with a    *)
(* depth budget of 0 and yield nothing but the root node, whatever depth    *)
(* the instance has stored.                                                 *)
C26_DeepZeroOverride ==
    (/\ inst.pc = "ready"
     /\ inst.last.op \in {"select_items", "mk_keys"}
     /\ inst.last.args.deep = <<0>>
     /\ inst.last.exc = "None") =>
        /\ inst.last.call.deep = 0
        /\ \A i \in 1..Len(inst.last.yielded) : inst.last.yielded[i] = Root

(* the mode an operation hands to the setter of mode: the argument of the   *)
(* constructor; for set_kwargs, access_h5, mk_keys and apply_keys the       *)
(* argument, or the stored mode when the argument is None or empty; 'r' for *)
(* set_default; select_items stores nothing                                 *)
ModeHanded(op, args, self) ==
    CASE op = "__init__" -> args.mode
      [] op = "set_default" -> "r"
      [] op = "select_items" -> self.mode
      [] OTHER -> IF args.mode \in {"None", ""} THEN self.mode ELSE args.mode

Kept(given, none, stored) == IF given # none THEN given ELSE stored

(* C29: a mk_keys that returns has stored the overrides it was given and    *)
(* left the other settings as they were, and has traversed with the stored  *)
(* settings; select_items, access_h5 and apply_keys leave criteria, depth   *)
(* and func as stored, and a select_items that omits a setting traverses    *)
(* with the stored one; set_default restores mode, criteria, depth and func *)
(* to their defaults and leaves the keys as they were.                      *)
C29_OverridesPersist ==
    [][LET op == inst'.last.op
           a == inst'.last.args
           s == inst.self
           t == inst'.self
           call == inst'.last.call
       IN  /\ (op = "mk_keys" /\ inst'.last.exc = "None") =>
                 /\ t.mode = (IF a.mode \in ValidModes THEN a.mode ELSE s.mode)
                 /\ t.name_criteria = Kept(a.name_criteria, "None", s.name_criteria)
                 /\ t.object_criteria = Kept(a.object_criteria, "None", s.object_criteria)
                 /\ t.deep = (IF a.deep # <<>> THEN a.deep[1] ELSE s.deep)
                 /\ t.func = Kept(a.func, "None", s.func)
                 /\ call.mode = t.mode
                 /\ call.name_criteria = t.name_criteria
                 /\ call.object_criteria = t.object_criteria
                 /\ call.deep = t.deep
           /\ op = "select_items" =>
                 /\ t = s
                 /\ a.mode = "None" => call.mode = s.mode
                 /\ a.name_criteria = "None" => call.name_criteria = s.name_criteria
                 /\ a.object_criteria = "None" => call.object_criteria = s.object_criteria
                 /\ a.deep = <<>> => call.deep = s.deep
                 /\ a.func = "None" => call.func = s.func
           /\ op \in {"access_h5", "apply_keys"} =>
                 /\ t.name_criteria = s.name_criteria
                 /\ t.object_criteria = s.object_criteria
                 /\ t.deep = s.deep
                 /\ t.func = s.func
           /\ op = "set_default" =>
                 t = [mode |-> "r", name_criteria |-> "_default_criteria",
                      object_criteria |-> "_default_criteria", deep |-> DefaultDeep,
                      func |-> "_default_func", keys |-> s.keys]]_vars

=============================================================================
